---- MODULE Spec2Model ----
(***************************************************************************)
(* Model of the preparation engine of project/prepare.py: the expansion of *)
(* the requirement list, the dependency sort, the head/tail partition, the *)
(* chain of stages with continuations, and the driver loop of prepare().   *)
(*                                                                         *)
(* A mapping (dict) of environment variables is a function from Keys to a  *)
(* value, the value Absent standing for "key not in the dict".             *)
(* A pair (requirement, providers) is the tuple <<requirement, providers>> *)
(* as in the source: rp[1] is the requirement, rp[2] the provider tuple.   *)
(***************************************************************************)
EXTENDS Integers, Sequences, FiniteSets, TLC

\* ------------------------------------------------------------------ bounds
\* Largest number of providers find_providers returns for one requirement.
MaxProviders == 2
\* Largest number of providers beyond the first, over the whole working list.
MaxExtraProviders == 1
\* Largest number of variables one provider needs.
MaxProviderNeeds == 1
\* Largest number of variables needed by all the providers of the working
\* list together.
MaxNeeds == 3
\* Largest number of providers of the working list that report their needs
\* whether or not the variable is already set.
MaxUnfiltered == 1
\* Largest number of requirements the project declares.  The declared
\* variables are the first ones of VarOrder: the engine never looks at a
\* name, so any other choice is a renaming of one of these.
MaxDeclared == 2
\* Largest number of keys present in the caller's environ before prepare.
MaxPreset == 1
\* Largest number of provide calls of one prepare that write logs or errors
\* into their context.
MaxReports == 1
\* Largest number of variables for which the registry's find_by_env_var
\* gives no requirement or one keyed by another name.
MaxMisresolved == 1
\* The interpreter's limit on the depth of the expander's recursion, scaled
\* down: an expansion over a registry that resolves every name needs at most
\* one call for each variable of Vars.
MaxDepth == 5
\* Largest number of shutdown commands in one resource's run state.
MaxCommands == 2
\* Largest number of unprepare calls made on one project directory.
MaxUnprepares == 2
\* Largest number of characters of one command-line argument.
MaxArgLen == 3
\* Largest number of name=value arguments of one command line.
MaxArgs == 2

\* ---------------------------------------------------------------- universe
VarOrder == <<"X", "Y", "Z">>
Vars == {VarOrder[i] : i \in DOMAIN VarOrder}
PROJECT_DIR == "PROJECT_DIR"
Keys == Vars \cup {PROJECT_DIR}
Absent == "absent"
None == "None"

\* key in environ
Has(environ, key) == environ[key] # Absent

Range(s) == {s[i] : i \in DOMAIN s}

\* An environ with no key.
NoEnviron == [k \in Keys |-> Absent]

\* ------------------------------------------------- plugins (collaborators)
\* Requirement.why_not_provided(environ): None when the requirement's
\* variable is set, a reason otherwise.
why_not_provided(requirement, environ) ==
    IF Has(environ, requirement.env_var) THEN None ELSE "not set"

\* Provider.missing_env_vars_to_configure(requirement, environ, local_state):
\* the variables the provider needs before it can be configured.  A provider
\* with filtered = FALSE reports its needs whether or not they are set.
missing_env_vars_to_configure(provider, requirement, environ) ==
    IF provider.filtered
    THEN {v \in provider.cfg : ~Has(environ, v)}
    ELSE provider.cfg

\* Provider.missing_env_vars_to_provide(requirement, environ, local_state).
missing_env_vars_to_provide(provider, requirement, environ) ==
    IF provider.filtered
    THEN {v \in provider.prv : ~Has(environ, v)}
    ELSE provider.prv

\* --------------------------------------------------------- dependency sort
get_missing_to_provide(provider, requirement, environ) ==
    missing_env_vars_to_provide(provider, requirement, environ)

get_missing_to_configure(provider, requirement, environ) ==
    missing_env_vars_to_configure(provider, requirement, environ)

\* The strategy passed to the sort: "configure" or "provide".
missing_vars_getter(getter, provider, requirement, environ) ==
    IF getter = "configure"
    THEN get_missing_to_configure(provider, requirement, environ)
    ELSE get_missing_to_provide(provider, requirement, environ)

get_node_key(requirement_and_providers) ==
    requirement_and_providers[1].env_var

\* A plausible slip: only the first provider's needs are collected.
get_dependency_keys_first_only(requirement_and_providers, getter, environ) ==
    IF requirement_and_providers[2] = <<>> THEN {}
    ELSE missing_vars_getter(getter, requirement_and_providers[2][1],
                             requirement_and_providers[1], environ)

get_dependency_keys(requirement_and_providers, getter, environ) ==
    UNION {missing_vars_getter(getter, requirement_and_providers[2][i],
                               requirement_and_providers[1], environ) :
           i \in DOMAIN requirement_and_providers[2]}

\* A plausible slip: every dependency key is taken as ignorable.
can_ignore_dependency_on_key_always(key, environ) == TRUE

\* A plausible slip: no dependency key is taken as ignorable.
can_ignore_dependency_on_key_never(key, environ) == FALSE

can_ignore_dependency_on_key(key, environ) ==
    Has(environ, key)

\* toposort_from_dependency_info: dependency keys that can be ignored are
\* dropped; a remaining key that is no node's key, or a cycle, is a fatal
\* error; otherwise the nodes come out dependencies first, ties in input
\* order.  keys[i] and deps[i] are the key and the dependency keys of
\* nodes[i], ignorable the set of keys that can be ignored.
RECURSIVE toposort_place(_, _, _, _, _)
toposort_place(nodes, keys, deps, placed, out) ==
    LET remaining == {i \in DOMAIN nodes : i \notin placed}
        ready == {i \in remaining : deps[i] \subseteq {keys[j] : j \in placed}}
    IN  IF remaining = {} THEN [ok |-> TRUE, order |-> out, error |-> "none"]
        ELSE IF ready = {} THEN [ok |-> FALSE, order |-> <<>>, error |-> "cycle"]
        ELSE LET i == CHOOSE r \in ready : \A q \in ready : r <= q
             IN  toposort_place(nodes, keys, deps, placed \cup {i}, Append(out, nodes[i]))

toposort_from_dependency_info(nodes, keys, deps, ignorable) ==
    LET kept == [i \in DOMAIN nodes |-> deps[i] \ ignorable]
        all_keys == {keys[i] : i \in DOMAIN nodes}
    IN  IF \E i \in DOMAIN nodes : ~(kept[i] \subseteq all_keys)
        THEN [ok |-> FALSE, order |-> <<>>, error |-> "missing"]
        ELSE toposort_place(nodes, keys, kept, {}, <<>>)

_sort_requirements_and_providers(environ, requirements_and_providers, getter) ==
    toposort_from_dependency_info(
        requirements_and_providers,
        [i \in DOMAIN requirements_and_providers |->
            get_node_key(requirements_and_providers[i])],
        [i \in DOMAIN requirements_and_providers |->
            get_dependency_keys(requirements_and_providers[i], getter, environ)],
        {k \in Keys : can_ignore_dependency_on_key(k, environ)})

\* --------------------------------------------------------------- partition
\* A plausible slip: the flag is assigned from each provider in turn, so the
\* last provider decides.
missing_vars_last_only(requirement_and_providers, environ) ==
    /\ requirement_and_providers[2] # <<>>
    /\ Cardinality(missing_env_vars_to_configure(
            requirement_and_providers[2][Len(requirement_and_providers[2])],
            requirement_and_providers[1], environ)) > 0

\* The inner loop of the walk (lines 206-209): some provider of the pair
\* still reports a variable missing to configure.
missing_vars(requirement_and_providers, environ) ==
    \E i \in DOMAIN requirement_and_providers[2] :
        Cardinality(missing_env_vars_to_configure(
            requirement_and_providers[2][i], requirement_and_providers[1], environ)) > 0

\* Index of the pair that stops the walk, Len + 1 when none does.
RECURSIVE first_missing(_, _, _)
first_missing(sorted, environ, i) ==
    IF i > Len(sorted) THEN i
    ELSE IF missing_vars(sorted[i], environ) THEN i
    ELSE first_missing(sorted, environ, i + 1)

\* A plausible slip: the walk goes on after the first pair with missing
\* variables, so head gets every pair without and tail every pair with.
_partition_without_break(environ, requirements_and_providers) ==
    LET s == _sort_requirements_and_providers(environ, requirements_and_providers, "configure")
        Missing(rp) == missing_vars(rp, environ)
        Clean(rp) == ~missing_vars(rp, environ)
    IN  IF ~s.ok
        THEN [ok |-> FALSE, head |-> <<>>, tail |-> <<>>, error |-> s.error]
        ELSE [ok |-> TRUE,
              head |-> SelectSeq(s.order, Clean),
              tail |-> SelectSeq(s.order, Missing),
              error |-> "none"]

\* Lines 187-220: the walk stops at the first pair with missing variables;
\* the pairs walked before it are head, that pair and the rest are tail.
_partition_first_group_to_configure(environ, requirements_and_providers) ==
    LET s == _sort_requirements_and_providers(environ, requirements_and_providers, "configure")
        k == first_missing(s.order, environ, 1)
    IN  IF ~s.ok
        THEN [ok |-> FALSE, head |-> <<>>, tail |-> <<>>, error |-> s.error]
        ELSE [ok |-> TRUE,
              head |-> SubSeq(s.order, 1, k - 1),
              tail |-> SubSeq(s.order, k, Len(s.order)),
              error |-> "none"]

\* ------------------------------------------------------------------ stages
\* A stage is a _FunctionPrepareStage (execute names its function, raps is
\* the batch of pairs its closure holds) under the _AndThenPrepareStage
\* wrappers listed in and_then, innermost first.  NoStage is Python's None.
NoStage == [execute |-> "none", raps |-> <<>>, and_then |-> <<>>]

_after_stage_success(stage, and_then) ==
    [stage EXCEPT !.and_then = Append(@, and_then)]

_configure_and_provide(requirements_and_providers) ==
    [execute |-> "configure_stage", raps |-> requirements_and_providers, and_then |-> <<>>]

_stages_for(requirements_and_providers) ==
    _configure_and_provide(requirements_and_providers)

process_remaining(remaining) ==
    [f |-> "process_remaining", remaining |-> remaining]

\* A plausible slip: a non-empty head is staged alone, with no continuation
\* over the tail.
_process_without_continuation(environ, requirements_and_providers) ==
    LET part == _partition_first_group_to_configure(environ, requirements_and_providers)
    IN  [ok |-> part.ok,
         part |-> [input |-> requirements_and_providers, environ |-> environ,
                   ok |-> part.ok, head |-> part.head, tail |-> part.tail,
                   error |-> part.error],
         stage |->
            IF ~part.ok THEN NoStage
            ELSE IF Len(part.head) > 0 THEN _stages_for(part.head)
            ELSE _stages_for(part.tail)]

\* A plausible slip: a non-empty tail always gets a continuation, also
\* behind an empty head.
_process_always_continues(environ, requirements_and_providers) ==
    LET part == _partition_first_group_to_configure(environ, requirements_and_providers)
    IN  [ok |-> part.ok,
         part |-> [input |-> requirements_and_providers, environ |-> environ,
                   ok |-> part.ok, head |-> part.head, tail |-> part.tail,
                   error |-> part.error],
         stage |->
            IF ~part.ok THEN NoStage
            ELSE IF Len(part.tail) > 0
            THEN _after_stage_success(_stages_for(part.head), process_remaining(part.tail))
            ELSE _stages_for(part.head)]

\* [ok, stage, part]: the stage produced, part the partition it rests on;
\* ok = FALSE when the sort raised.
_process_requirements_and_providers(environ, requirements_and_providers) ==
    LET part == _partition_first_group_to_configure(environ, requirements_and_providers)
        initial == part.head
        remaining == part.tail
    IN  [ok |-> part.ok,
         part |-> [input |-> requirements_and_providers, environ |-> environ,
                   ok |-> part.ok, head |-> part.head, tail |-> part.tail,
                   error |-> part.error],
         stage |->
            IF ~part.ok THEN NoStage
            ELSE IF Len(initial) > 0 /\ Len(remaining) > 0
            THEN _after_stage_success(_stages_for(initial), process_remaining(remaining))
            ELSE IF Len(initial) > 0 THEN _stages_for(initial)
            ELSE _stages_for(remaining)]

\* A plausible slip: the wrapper hands on the successor as it is.
rewrap_drops_and_then(next, conts) == next

\* Line 90: every wrapper whose stage returned a successor wraps that
\* successor with its own and_then; conts lists the wrappers' and_then,
\* innermost first.
rewrap(next, conts) ==
    [next EXCEPT !.and_then = @ \o conts]

\* Line 136: what configure_stage returns, the work stage of the same batch.
configure_stage_next(requirements_and_providers) ==
    [execute |-> "provide_stage", raps |-> requirements_and_providers, and_then |-> <<>>]

\* A plausible slip: a work stage that failed hands out the stages of its
\* batch once more.
provide_stage_next_retry(stage_failed_flag, requirements_and_providers) ==
    IF stage_failed_flag THEN _configure_and_provide(requirements_and_providers)
    ELSE NoStage

\* Line 182: what provide_stage returns.
provide_stage_next(stage_failed_flag, requirements_and_providers) == NoStage

\* A plausible slip: the caller's mapping is overwritten key by key without
\* looking at what the copy holds.
set_vars_drop_values(environ_copy, environ) ==
    [key \in Keys |-> IF Has(environ_copy, key) /\ ~Has(environ, key)
                      THEN environ_copy[key] ELSE environ[key]]

\* The closure set_vars of prepare_in_stages: the caller's environ after it.
set_vars(environ_copy, environ) ==
    [key \in Keys |->
        IF Has(environ_copy, key) /\ (~Has(environ, key) \/ environ[key] # environ_copy[key])
        THEN environ_copy[key]
        ELSE environ[key]]

\* _AndThenPrepareStage.execute once the wrapped function stage has returned
\* None: wrapper j returns None when the stage failed and calls its and_then
\* otherwise, and what that returns goes through the wrappers outside it.
\* [next, environ, error, parts, called]: called lists the and_then
\* functions called, each with the failed flag the wrapper had read.
\* A plausible slip: the wrapper calls and_then whether or not the stage failed.
returns_none_on_failure_never(stage_failed_flag) == FALSE

\* Lines 85-86: the wrapper returns None, and_then not called, when the
\* stage it wraps has failed.
returns_none_on_failure(stage_failed_flag) == stage_failed_flag

RECURSIVE and_then_execute(_, _, _, _, _, _, _)
and_then_execute(conts, j, stage_failed_flag, environ_copy, environ, parts, called) ==
    IF j > Len(conts) \/ returns_none_on_failure(stage_failed_flag)
    THEN [next |-> NoStage, environ |-> environ, error |-> "none", parts |-> parts,
          called |-> called]
    ELSE LET now == Append(called, [f |-> conts[j].f, remaining |-> conts[j].remaining,
                                    failed |-> stage_failed_flag])
         IN  IF conts[j].f = "set_vars"
             THEN and_then_execute(conts, j + 1, stage_failed_flag, environ_copy,
                                   set_vars(environ_copy, environ), parts, now)
             ELSE LET r == _process_requirements_and_providers(environ_copy, conts[j].remaining)
                  IN  IF ~r.ok
                      THEN [next |-> NoStage, environ |-> environ, error |-> r.part.error,
                            parts |-> Append(parts, r.part), called |-> now]
                      ELSE [next |-> rewrap(r.stage, SubSeq(conts, j + 1, Len(conts))),
                            environ |-> environ, error |-> "none",
                            parts |-> Append(parts, r.part), called |-> now]

\* _AndThenPrepareStage.execute (lines 82-90) of the wrappers around a
\* function stage that has returned next: a successor is wrapped again, and
\* after None the and_then functions take over.
and_then_stage_execute(next, conts, stage_failed_flag, environ_copy, environ) ==
    IF next # NoStage
    THEN [next |-> rewrap(next, conts), environ |-> environ, error |-> "none",
          parts |-> <<>>, called |-> <<>>]
    ELSE and_then_execute(conts, 1, stage_failed_flag, environ_copy, environ, <<>>, <<>>)

\* ------------------------------------------------------------ work stage
\* plan: the (provider, requirement) list of provide_stage, in the order of
\* the sorted pairs; index is the provider's position in its pair.
RECURSIVE make_plan(_, _)
make_plan(sorted, i) ==
    IF i > Len(sorted) THEN <<>>
    ELSE [j \in DOMAIN sorted[i][2] |->
            [provider |-> sorted[i][2][j], requirement |-> sorted[i][1], index |-> j]]
         \o make_plan(sorted, i + 1)

\* One entry of the call history.
Call(op, env_var, index, stage_no, sets) ==
    [op |-> op, env_var |-> env_var, provider |-> index, stage |-> stage_no, sets |-> sets,
     errors |-> FALSE, logs |-> FALSE]

\* What one provide call does: sets tells whether it sets the requirement's
\* variable, errors and logs whether it leaves lines in context.errors and
\* in context.logs.
ProvideOutcomes == [sets : BOOLEAN, errors : BOOLEAN, logs : BOOLEAN]

\* The outcomes of the calls of a plan in which at most budget calls leave
\* errors or logs.
PlanOutcomes(plan, budget) ==
    UNION {UNION {{[i \in DOMAIN plan |->
                        [sets |-> sets[i],
                         errors |-> i \in reporting /\ kind[i] \in {"errors", "both"},
                         logs |-> i \in reporting /\ kind[i] \in {"logs", "both"}]] :
                    sets \in [DOMAIN plan -> BOOLEAN]} :
                  kind \in [reporting -> {"errors", "logs", "both"}]} :
           reporting \in {r \in SUBSET DOMAIN plan : Cardinality(r) <= budget}}

\* One entry of the history of what was printed.
Write(stream, what, env_var, index, stage_no) ==
    [stream |-> stream, what |-> what, env_var |-> env_var, provider |-> index,
     stage |-> stage_no]

\* Lines 164-171: what is printed after one provide call.
print_context(outcome, env_var, index, stage_no) ==
    (IF outcome.errors /\ outcome.logs
     THEN <<Write("stdout", "log", env_var, index, stage_no)>> ELSE <<>>)
    \o (IF outcome.errors
        THEN <<Write("stderr", "error", env_var, index, stage_no)>> ELSE <<>>)

\* A plausible slip: the loop is left at the first call that reports errors.
keeps_going_without_errors(outcome) == ~outcome.errors

\* Lines 156-171: after a provide call the loop goes on to the next entry
\* of the plan, whatever the call left in context.errors.
keeps_going(outcome) == TRUE

\* A plausible slip: the satisfied check is left out, every provider runs.
provide_skip_never(requirement, environ) == FALSE

\* Lines 157-159: the pair is skipped when its requirement is satisfied.
provide_skip(requirement, environ) ==
    why_not_provided(requirement, environ) = None

\* The loop over the plan (lines 156-171).  outs[i] is what the i-th provide
\* call does, if made.  [environ, calls, output].
RECURSIVE provide_loop(_, _, _, _, _, _, _)
provide_loop(plan, i, environ, calls, outs, stage_no, output) ==
    IF i > Len(plan) THEN [environ |-> environ, calls |-> calls, output |-> output]
    ELSE IF provide_skip(plan[i].requirement, environ)
    THEN provide_loop(plan, i + 1, environ, calls, outs, stage_no, output)
    ELSE LET env_var == plan[i].requirement.env_var
             provided == [Call("provide", env_var, plan[i].index, stage_no, outs[i].sets)
                            EXCEPT !.errors = outs[i].errors, !.logs = outs[i].logs]
         IN  provide_loop(plan,
                IF keeps_going(outs[i]) THEN i + 1 ELSE Len(plan) + 1,
                IF outs[i].sets THEN [environ EXCEPT ![env_var] = "new"] ELSE environ,
                calls \o << Call("read_config", env_var, plan[i].index, stage_no, FALSE),
                            provided >>,
                outs, stage_no,
                output \o print_context(outs[i], env_var, plan[i].index, stage_no))

\* Lines 174-179: the lines the verification prints, one entry for each
\* requirement of the batch that is not provided.
RECURSIVE print_missing(_, _, _, _)
print_missing(requirements_and_providers, i, environ, stage_no) ==
    IF i > Len(requirements_and_providers) THEN <<>>
    ELSE (IF why_not_provided(requirements_and_providers[i][1], environ) # None
          THEN <<Write("stderr", "missing", requirements_and_providers[i][1].env_var, 0,
                       stage_no)>>
          ELSE <<>>)
         \o print_missing(requirements_and_providers, i + 1, environ, stage_no)

\* A plausible slip: the verification looks at the first pair only.
stage_failed_first_only(requirements_and_providers, environ) ==
    /\ Len(requirements_and_providers) > 0
    /\ why_not_provided(requirements_and_providers[1][1], environ) # None

\* Lines 173-180: the value of stage._failed after the verification.
stage_failed(requirements_and_providers, environ) ==
    \E i \in DOMAIN requirements_and_providers :
        why_not_provided(requirements_and_providers[i][1], environ) # None

\* ---------------------------------------------------------------- registry
\* The providers a registry may hold for the requirement of variable v: cfg
\* and prv are the variables the provider needs to be configured and to
\* provide.
Providers(v) ==
    {p \in [cfg : SUBSET (Vars \ {v}), prv : SUBSET (Vars \ {v}), filtered : BOOLEAN] :
        /\ Cardinality(p.cfg) + Cardinality(p.prv) <= MaxProviderNeeds
        /\ (~p.filtered => p.cfg \cup p.prv # {})}

\* requirement.find_providers(provider_registry): the answers it may give.
find_providers(v) ==
    UNION {[1..n -> Providers(v)] : n \in 1..MaxProviders}

RECURSIVE SumNeeds(_, _)
SumNeeds(plan, i) ==
    IF i > Len(plan) THEN 0
    ELSE Cardinality(plan[i].provider.cfg) + Cardinality(plan[i].provider.prv)
         + SumNeeds(plan, i + 1)

WithinBounds(requirements_and_providers) ==
    LET plan == make_plan(requirements_and_providers, 1)
    IN  /\ SumNeeds(plan, 1) <= MaxNeeds
        /\ Len(plan) - Len(requirements_and_providers) <= MaxExtraProviders
        /\ Cardinality({i \in DOMAIN plan : ~plan[i].provider.filtered}) <= MaxUnfiltered

Perms(S) ==
    {f \in [1..Cardinality(S) -> S] : \A i, j \in DOMAIN f : i # j => f[i] # f[j]}

\* The lists got by appending to base one pair for each variable of order,
\* in that order, with any providers the registry may hold.
RECURSIVE Appended(_, _, _)
Appended(base, order, i) ==
    IF i > Len(order) THEN {base}
    ELSE UNION {Appended(Append(base, <<[env_var |-> order[i]], t>>), order, i + 1) :
                t \in {u \in find_providers(order[i]) :
                        WithinBounds(Append(base, <<[env_var |-> order[i]], u>>))}}

\* ---------------------------------------------------------------- expander
\* A plausible slip: the missing-to-provide variables are not collected.
needed_env_vars_configure_only(requirements_and_providers, environ) ==
    UNION {UNION {missing_env_vars_to_configure(requirements_and_providers[i][2][j],
                                                requirements_and_providers[i][1], environ) :
                  j \in DOMAIN requirements_and_providers[i][2]} :
           i \in DOMAIN requirements_and_providers}

\* Lines 257-261: every variable some provider reports as missing.
needed_env_vars(requirements_and_providers, environ) ==
    UNION {UNION {missing_env_vars_to_configure(requirements_and_providers[i][2][j],
                                                requirements_and_providers[i][1], environ)
                  \cup missing_env_vars_to_provide(requirements_and_providers[i][2][j],
                                                   requirements_and_providers[i][1], environ) :
                  j \in DOMAIN requirements_and_providers[i][2]} :
           i \in DOMAIN requirements_and_providers}

\* The lists the working list may have become when the expander returns:
\* one pass appends a pair for every needed variable that is no pair's key
\* (the needed variables are a Python set, walked in any order), and the
\* passes repeat until one creates nothing.
RECURSIVE _add_missing_env_var_requirements(_, _)
_add_missing_env_var_requirements(requirements_and_providers, environ) ==
    LET by_env_var == {requirements_and_providers[i][1].env_var :
                        i \in DOMAIN requirements_and_providers}
        created == needed_env_vars(requirements_and_providers, environ) \ by_env_var
    IN  IF created = {} THEN {requirements_and_providers}
        ELSE UNION {UNION {_add_missing_env_var_requirements(l, environ) :
                           l \in Appended(requirements_and_providers, order, 1)} :
                    order \in Perms(created)}

\* ------------------------------------------------- expander, pass by pass
\* What find_by_env_var followed by find_providers gives for one name: the
\* requirement's env_var and its providers; env_var = None when the registry
\* has no requirement for the name.  Unasked marks a name not yet asked.
Unasked == [env_var |-> "unasked", providers |-> <<>>]

RegistryAnswers ==
    {[env_var |-> None, providers |-> <<>>]}
    \cup UNION {{[env_var |-> w, providers |-> t] : t \in find_providers(w)} : w \in Vars}

\* The pairs the registry has given so far, after those of the list at the call.
RegistryPairs(input, registry) ==
    LET answered == SelectSeq(VarOrder,
                        LAMBDA v : registry[v].env_var \notin {"unasked", None})
    IN  input \o [k \in DOMAIN answered |->
                    <<[env_var |-> registry[answered[k]].env_var],
                      registry[answered[k]].providers>>]

RegistryWithinBounds(input, registry) ==
    /\ WithinBounds(RegistryPairs(input, registry))
    /\ Cardinality({v \in Vars : registry[v].env_var \notin {"unasked", v}}) <= MaxMisresolved

\* A plausible slip: the pass never repeats.
created_anything_never(created) == FALSE

\* Lines 263-267 and 272: created_anything after the loop over the needed
\* variables.
created_anything(created) == created # {}

\* The loop of lines 265-270 over the needed variables in the order given,
\* from the i-th on: the outcomes [list, registry, asked, error].  A name
\* asked before gets the answer it got; AttributeError when the registry
\* gave no requirement, find_providers then being called on None (line 269).
\* In a call at the interpreter's depth limit (last) the calls of lines 268
\* and 269 may be one frame too deep: RecursionError then surfaces in them,
\* the name asked and its pair not appended.  Whether they are depends on
\* the frames the registry needs, so both outcomes are kept.
RECURSIVE expander_loop(_, _, _, _, _, _, _)
expander_loop(list, registry, order, i, asked, input, last) ==
    IF i > Len(order)
    THEN {[list |-> list, registry |-> registry, asked |-> asked, error |-> "none"]}
    ELSE LET v == order[i]
             answers == IF registry[v] # Unasked THEN {registry[v]}
                        ELSE {a \in RegistryAnswers :
                                RegistryWithinBounds(input, [registry EXCEPT ![v] = a])}
             refused == IF last
                        THEN {[list |-> list, registry |-> registry,
                               asked |-> Append(asked, v), error |-> "RecursionError"]}
                        ELSE {}
         IN  refused \cup
             UNION {IF a.env_var = None
                    THEN {[list |-> list, registry |-> [registry EXCEPT ![v] = a],
                           asked |-> Append(asked, v), error |-> "AttributeError"]}
                    ELSE expander_loop(Append(list, <<[env_var |-> a.env_var], a.providers>>),
                                       [registry EXCEPT ![v] = a], order, i + 1,
                                       Append(asked, v), input, last) :
                    a \in answers}

\* One call of _add_missing_env_var_requirements up to its recursive call
\* (lines 250-272): the outcomes [list, registry, asked, error, again],
\* again telling whether the function calls itself.  In a call at the depth
\* limit the provider calls of lines 260-261 may already be too deep, the
\* pass then ending in RecursionError before anything is asked.
expander_pass(list, environ, registry, input, last) ==
    LET by_env_var == {list[i][1].env_var : i \in DOMAIN list}
        created == needed_env_vars(list, environ) \ by_env_var
        refused == IF last /\ \E i \in DOMAIN list : list[i][2] # <<>>
                   THEN {[list |-> list, registry |-> registry, asked |-> <<>>,
                          error |-> "RecursionError", again |-> FALSE]}
                   ELSE {}
    IN  refused \cup
        IF ~created_anything(created)
        THEN {[list |-> list, registry |-> registry, asked |-> <<>>, error |-> "none",
               again |-> FALSE]}
        ELSE UNION {{[list |-> r.list, registry |-> r.registry, asked |-> r.asked,
                      error |-> r.error, again |-> r.error = "none"] :
                        r \in expander_loop(list, registry, order, 1, <<>>, input, last)} :
                    order \in Perms(created)}

\* ---------------------------------------------------------------- teardown
\* The resources a run-state file may track.
ServiceNames == {"ABC", "TEST"}

\* The command lines a run state may hold: one that exits 0, one that exits
\* 1, and one whose executable does not exist.
Commands == {"true", "false", "missing"}

\* subprocess.call(command): the exit code, or raised when the executable
\* cannot be started (OSError).
subprocess_call(command) ==
    IF command = "true" THEN [raised |-> FALSE, code |-> 0]
    ELSE IF command = "false" THEN [raised |-> FALSE, code |-> 1]
    ELSE [raised |-> TRUE, code |-> 0]

\* dict(): a run state with no key.  tracked tells whether the name is a key
\* of the mapping of run states at all; other stands for any key that is not
\* shutdown_commands (a port, a pid).
EmptyRunState ==
    [tracked |-> TRUE, has_shutdown_commands |-> FALSE, shutdown_commands |-> <<>>,
     other |-> FALSE]

Untracked ==
    [tracked |-> FALSE, has_shutdown_commands |-> FALSE, shutdown_commands |-> <<>>,
     other |-> FALSE]

\* The run states one resource may have in the file.
RunStates ==
    {Untracked}
    \cup {[tracked |-> TRUE, has_shutdown_commands |-> FALSE, shutdown_commands |-> <<>>,
           other |-> o] : o \in BOOLEAN}
    \cup {[tracked |-> TRUE, has_shutdown_commands |-> TRUE, shutdown_commands |-> c,
           other |-> o] :
            c \in UNION {[1..n -> Commands] : n \in 0..MaxCommands}, o \in BOOLEAN}

\* One entry of the teardown history: a subprocess.call with what it gave,
\* or a save with the entry of the service as written to the file.
ShutdownEvent(op, service, command, called, saved, call_no) ==
    [op |-> op, service |-> service, command |-> command, code |-> called.code,
     raised |-> called.raised, saved |-> saved, unprepare |-> call_no]

\* Lines 409-414: the commands of one run state are run in order; a call
\* that raises ends the loop and unprepare.  [events, raised].
RECURSIVE run_shutdown_commands(_, _, _, _, _)
run_shutdown_commands(service_name, commands, i, events, call_no) ==
    IF i > Len(commands) THEN [events |-> events, raised |-> FALSE]
    ELSE LET code == subprocess_call(commands[i])
             e == ShutdownEvent("call", service_name, commands[i], code, Untracked, call_no)
         IN  IF code.raised
             THEN [events |-> Append(events, e), raised |-> TRUE]
             ELSE run_shutdown_commands(service_name, commands, i + 1,
                                        Append(events, e), call_no)

\* A plausible slip: the run state is cleared only when every command of the
\* resource exited 0.
cleared_run_state_on_success(state, events) ==
    IF \E k \in DOMAIN events : events[k].op = "call" /\ events[k].code # 0
    THEN state ELSE EmptyRunState

\* Line 416: the value set_service_run_state stores for the resource.
cleared_run_state(state, events) == EmptyRunState

\* What unprepare returns: it has no return statement.
unprepare_returns(events) == None

\* -------------------------------------------------------- variable commands
\* The characters of a command-line argument: '=' and two others.
Chars == {"=", "a", "b"}

\* A str is the sequence of its characters.
Strings == UNION {[1..n -> Chars] : n \in 0..MaxArgLen}

\* '=' in var
contains_equals(var) == \E i \in DOMAIN var : var[i] = "="

\* A plausible slip: the string is split at its last '='.
split_at_last_equals(var) ==
    LET k == CHOOSE i \in DOMAIN var : var[i] = "=" /\ \A j \in DOMAIN var : var[j] = "=" => j <= i
    IN  <<SubSeq(var, 1, k - 1), SubSeq(var, k + 1, Len(var))>>

\* tuple(var.split('=', maxsplit=1)) for a var that holds a '='.
split_maxsplit_1(var) ==
    LET k == CHOOSE i \in DOMAIN var : var[i] = "=" /\ \A j \in DOMAIN var : var[j] = "=" => i <= j
    IN  <<SubSeq(var, 1, k - 1), SubSeq(var, k + 1, Len(var))>>

\* The loop of set_variables (lines 21-26) from element i on: [ok, fixed_vars],
\* ok = FALSE when an element without '=' made the function return 1.
RECURSIVE fix_vars(_, _, _)
fix_vars(vars_to_set, i, fixed_vars) ==
    IF i > Len(vars_to_set) THEN [ok |-> TRUE, fixed_vars |-> fixed_vars]
    ELSE IF ~contains_equals(vars_to_set[i]) THEN [ok |-> FALSE, fixed_vars |-> fixed_vars]
    ELSE fix_vars(vars_to_set, i + 1, Append(fixed_vars, split_maxsplit_1(vars_to_set[i])))

\* A plausible slip: the problems of the project are printed and not acted on.
returns_on_problems_never(problems) == FALSE

\* Lines 28-29: print_project_problems(project) is true when the project
\* has problems, and set_variables then returns 1.
returns_on_problems(problems) == problems

\* project_ops.add_variables(project, fixed_vars): the variables of the
\* project file after the call.
add_variables(variables, fixed_vars) == variables \o fixed_vars

\* No exit code: the command has not returned.
NoExitCode == -1

\* set_variables (lines 15-31) on a project whose file holds the given
\* variables and has problems or not.  [exit_code, loaded, added, variables]:
\* loaded tells whether Project(...) was constructed, added lists the
\* argument of each add_variables call.
set_variables(problems, variables, vars_to_set) ==
    LET fixed == fix_vars(vars_to_set, 1, <<>>)
    IN  IF ~fixed.ok
        THEN [exit_code |-> 1, loaded |-> FALSE, added |-> <<>>, variables |-> variables]
        ELSE IF returns_on_problems(problems)
        THEN [exit_code |-> 1, loaded |-> TRUE, added |-> <<>>, variables |-> variables]
        ELSE [exit_code |-> 0, loaded |-> TRUE, added |-> <<fixed.fixed_vars>>,
              variables |-> add_variables(variables, fixed.fixed_vars)]

\* ------------------------------------------------------------- prepare's UI
\* prepare.py lines 19-23: the UI modes prepare accepts.
UI_MODE_TEXT == "text"

UI_MODE_BROWSER == "browser"

UI_MODE_NOT_INTERACTIVE == "not_interactive"

_all_ui_modes == {UI_MODE_TEXT, UI_MODE_BROWSER, UI_MODE_NOT_INTERACTIVE}

\* The modes a caller may pass: the three above and a string that is none of
\* them.
UiModes == _all_ui_modes \cup {"bogus"}

\* The local ui of prepare while no assignment has bound it.
Unbound == "unbound"

\* prepare, lines 369-372: the UI object the mode selects.  No branch binds
\* ui for UI_MODE_TEXT.
ui_of(mode) ==
    IF mode = UI_MODE_NOT_INTERACTIVE THEN "NotInteractivePrepareUI"
    ELSE IF mode = UI_MODE_BROWSER THEN "BrowserPrepareUI"
    ELSE Unbound

\* prepare_in_stages, lines 298-305: with environ None the engine works on
\* deepcopy(os.environ), which is an os._Environ again: every assignment to
\* a key of the copy also calls putenv.  process is the environment of the
\* process, before and after are the mapping written to.
putenv_through(is_os_environ, process, before, after) ==
    IF is_os_environ
    THEN [k \in Keys |-> IF after[k] # before[k] THEN after[k] ELSE process[k]]
    ELSE process

\* ------------------------------------------------------------------- state
VARIABLES
    ui_mode,        \* the ui_mode argument of prepare
    environ_is_none, \* whether the environ argument of prepare was None
    process_environ, \* the environment of the process, as putenv left it
    exception,      \* the exception that ended prepare, "none" without
    environ,        \* the caller's mapping, os.environ when None was passed
    environ_copy,   \* the deep copy the stages work on
    project,        \* project.requirements: the declared variables, in order
    requirements_and_providers,  \* the working list after expansion
    stage,          \* the stage the driver loop of prepare holds
    failed,         \* stage.failed as the driver read it after the last execute
    pc,             \* "start", "loop", "returned" or "raised"
    result,         \* what prepare returned: "True", "False", or "none" so far
    stage_no,       \* number of configure stages executed
    calls,          \* history of ui.configure, read_config and provide calls
    partitions,     \* history of _partition_first_group_to_configure calls
    provide_sorts,  \* history of the sorts made by provide_stage
    verified,       \* history of the verification phases of the work stages
    environ_before, \* the caller's mapping when prepare was invoked
    output,         \* history of the lines written to stdout and stderr
    reports_left,   \* provide calls that may still leave logs or errors
    configured,     \* history: the batch given to each ui.configure call
    stages_made,    \* history: the stages _configure_and_provide made
    and_then_calls  \* history: the and_then functions the wrappers called

\* The state of a teardown: the run-state file and one unprepare call.
VARIABLES
    persisted,        \* the run states in the file, by resource name
    file_order,       \* the resource names in the order the mapping lists them
    local_state,      \* the run states of the loaded LocalStateFile
    todo,             \* the names the loop of unprepare has still to visit
    tpc,              \* "idle", "loop", "returned" or "raised"
    unprepare_result, \* what unprepare returned, "none" while it has not
    unprepares,       \* number of unprepare calls made
    shutdown_events,  \* history of subprocess.call and save
    tracked_at_load   \* the run states the current unprepare call loaded

\* The state of one run of the variable command.
VARIABLES
    args,              \* the parsed command line given to main
    project_problems,  \* whether the project file has validation problems
    project_variables, \* the variables of the project file, as (name, value)
    cpc,               \* "start", "returned" or "raised"
    exit_code,         \* what main returned, NoExitCode while it has not
    project_loaded,    \* whether Project(...) was constructed
    add_variables_calls, \* history: the argument of each add_variables call
    project_variables_before \* the variables of the project file before the run

command_vars == <<args, project_problems, project_variables, cpc, exit_code,
                  project_loaded, add_variables_calls, project_variables_before>>

\* The state of one expansion of a requirement list.
VARIABLES
    xenviron,   \* the environ given to the expander
    xregistry,  \* what the registry has answered, by name asked
    xlist,      \* the working list, extended in place
    xinput,     \* the working list when the expander was called
    xpc,        \* "call", "returned" or "raised"
    xdepth,     \* number of calls of the expander on the stack
    xerror,     \* the exception that ended the expansion, "none" without
    xasked      \* history: the names asked of find_by_env_var

expander_vars == <<xenviron, xregistry, xlist, xinput, xpc, xdepth, xerror, xasked>>

prepare_vars == <<ui_mode, environ_is_none, process_environ, exception, environ, environ_copy, project, requirements_and_providers, stage, failed,
                  pc, result, stage_no, calls, partitions, provide_sorts, verified,
                  environ_before, output, reports_left, configured, stages_made,
                  and_then_calls>>

teardown_vars == <<persisted, file_order, local_state, todo, tpc, unprepare_result,
                   unprepares, shutdown_events, tracked_at_load>>

vars == <<prepare_vars, teardown_vars, command_vars, expander_vars>>

\* No expansion under way.
ExpanderIdle ==
    /\ xenviron = NoEnviron
    /\ xregistry = [v \in Vars |-> Unasked]
    /\ xlist = <<>>
    /\ xinput = <<>>
    /\ xpc = "call"
    /\ xdepth = 0
    /\ xerror = "none"
    /\ xasked = <<>>

\* No command run.
CommandIdle ==
    /\ args = [action |-> "set", vars_to_set |-> <<>>, vars_to_unset |-> <<>>]
    /\ project_problems = FALSE
    /\ project_variables = <<>>
    /\ cpc = "start"
    /\ exit_code = NoExitCode
    /\ project_loaded = FALSE
    /\ add_variables_calls = <<>>
    /\ project_variables_before = <<>>

\* No run-state file, no unprepare call.
TeardownIdle ==
    /\ persisted = [n \in ServiceNames |-> Untracked]
    /\ file_order = <<>>
    /\ local_state = [n \in ServiceNames |-> Untracked]
    /\ todo = <<>>
    /\ tpc = "idle"
    /\ unprepare_result = "none"
    /\ unprepares = 0
    /\ shutdown_events = <<>>
    /\ tracked_at_load = [n \in ServiceNames |-> Untracked]

Declared == {SubSeq(VarOrder, 1, n) : n \in 0..MaxDeclared}

\* prepare is called (line 338): the UI mode, the caller's environ (a
\* mapping of the caller, or None and then os.environ, line 299) and the
\* project; reports is the number of provide calls that may leave logs or
\* errors in their context.  os.environ mirrors the environment of the
\* process; next to a mapping of the caller the process has none of the keys.
PrepareCalled(reports) ==
    /\ ui_mode \in UiModes
    /\ environ_is_none \in BOOLEAN
    /\ exception = "none"
    /\ environ \in {e \in [Keys -> {Absent, "old"}] :
                        Cardinality({k \in Keys : Has(e, k)}) <= MaxPreset}
    /\ project \in [requirements : Declared]
    /\ reports_left = reports
    /\ environ_copy = NoEnviron
    /\ requirements_and_providers = <<>>
    /\ stage = NoStage
    /\ failed = FALSE
    /\ pc = "start"
    /\ result = "none"
    /\ stage_no = 0
    /\ calls = <<>>
    /\ partitions = <<>>
    /\ provide_sorts = <<>>
    /\ verified = <<>>
    /\ environ_before = environ
    /\ process_environ = IF environ_is_none THEN environ ELSE NoEnviron
    /\ output = <<>>
    /\ configured = <<>>
    /\ stages_made = <<>>
    /\ and_then_calls = <<>>
    /\ TeardownIdle
    /\ CommandIdle
    /\ ExpanderIdle

\* Providers that leave nothing in context.logs and context.errors.
Init == PrepareCalled(0)

\* prepare, lines 356-357: a mode that is none of _all_ui_modes is refused
\* before anything else is done.
RaiseInvalidUiMode ==
    /\ pc = "start"
    /\ ui_mode \notin _all_ui_modes
    /\ pc' = "raised"
    /\ exception' = "ValueError"
    /\ UNCHANGED <<ui_mode, environ_is_none, process_environ, environ, environ_copy, project,
                   requirements_and_providers, stage, failed, result, stage_no, calls,
                   partitions, provide_sorts, verified, environ_before, output,
                   reports_left, configured, stages_made, and_then_calls>>
    /\ UNCHANGED <<teardown_vars, command_vars, expander_vars>>

\* prepare, lines 356-374, for an accepted mode: prepare_in_stages (lines
\* 298-330) builds the chain.  The write of PROJECT_DIR to the copy (line
\* 309) comes before the expansion and the first partition, so it reaches
\* the process when the copy is one of os.environ, also when these raise.
PrepareInStages ==
    /\ pc = "start"
    /\ ui_mode \in _all_ui_modes
    /\ \E initial \in Appended(<<>>, project.requirements, 1) :
       \E expanded \in _add_missing_env_var_requirements(initial, environ) :
         LET copy == [environ EXCEPT ![PROJECT_DIR] = "dir"]
             r == _process_requirements_and_providers(copy, expanded)
         IN  /\ environ_copy' = copy
             /\ process_environ' = putenv_through(environ_is_none, process_environ,
                                                  environ, copy)
             /\ requirements_and_providers' = expanded
             /\ partitions' = <<r.part>>
             /\ IF r.ok
                THEN /\ stage' = _after_stage_success(r.stage, [f |-> "set_vars", remaining |-> <<>>])
                     /\ stages_made' = <<[batch |-> stage'.raps, and_then |-> stage'.and_then]>>
                     /\ pc' = "loop"
                     /\ exception' = "none"
                ELSE /\ stage' = NoStage
                     /\ stages_made' = <<>>
                     /\ pc' = "raised"
                     /\ exception' = r.part.error
    /\ UNCHANGED <<ui_mode, environ_is_none, environ, project, failed, result, stage_no, calls, provide_sorts,
                   verified, environ_before, output, reports_left, configured,
                   and_then_calls>>
    /\ UNCHANGED <<teardown_vars, command_vars, expander_vars>>

\* The first turn of the driver loop when no branch of lines 369-372 bound
\* ui: the argument of stage.execute(ui), line 379, cannot be read, so the
\* stage is not entered.
RaiseUnboundUi ==
    /\ pc = "loop"
    /\ ui_of(ui_mode) = Unbound
    /\ pc' = "raised"
    /\ exception' = "UnboundLocalError"
    /\ UNCHANGED <<ui_mode, environ_is_none, process_environ, environ, environ_copy, project,
                   requirements_and_providers, stage, failed, result, stage_no, calls,
                   partitions, provide_sorts, verified, environ_before, output,
                   reports_left, configured, stages_made, and_then_calls>>
    /\ UNCHANGED <<teardown_vars, command_vars, expander_vars>>

\* One turn of the driver loop (lines 375-382) on a configure stage:
\* configure_stage (lines 128-136) calls ui.configure and returns the work
\* stage, which every wrapper around it wraps again with its own and_then.
ExecuteConfigureStage ==
    /\ pc = "loop"
    /\ ui_of(ui_mode) # Unbound
    /\ stage.execute = "configure_stage"
    /\ calls' = Append(calls, Call("configure", "", 0, stage_no + 1, FALSE))
    /\ stage_no' = stage_no + 1
    /\ configured' = Append(configured, stage.raps)
    /\ LET after == and_then_stage_execute(configure_stage_next(stage.raps), stage.and_then,
                                           FALSE, environ_copy, environ)
       IN  /\ stage' = after.next
           /\ and_then_calls' = and_then_calls \o
                    [k \in DOMAIN after.called |-> [call |-> after.called[k], stage |-> stage_no + 1]]
    /\ failed' = FALSE
    /\ UNCHANGED <<ui_mode, environ_is_none, process_environ, exception,
                   environ, environ_copy, project, requirements_and_providers,
                   pc, result, partitions, provide_sorts, verified, environ_before,
                   output, reports_left, stages_made>>
    /\ UNCHANGED <<teardown_vars, command_vars, expander_vars>>

\* One turn of the driver loop on a work stage: provide_stage (lines
\* 138-182), then the wrappers around it (lines 82-90), then the driver's
\* test of stage.failed and of the successor.  Each intermediate value is
\* bound once: s the sorted batch, plan the plan, outs what the providers
\* do, run the loop's effect, f the verification, next what provide_stage
\* returns, after what the wrappers make of it.
ExecuteProvideStage ==
    /\ pc = "loop"
    /\ ui_of(ui_mode) # Unbound
    /\ stage.execute = "provide_stage"
    /\ \E s \in {_sort_requirements_and_providers(environ_copy, stage.raps, "provide")} :
       \E plan \in {make_plan(s.order, 1)} :
           /\ provide_sorts' = Append(provide_sorts,
                    [input |-> stage.raps, environ |-> environ_copy, ok |-> s.ok,
                     order |-> s.order, error |-> s.error])
           /\ IF ~s.ok
              THEN /\ pc' = "raised"
                   /\ exception' = s.error
                   /\ UNCHANGED <<process_environ, environ, environ_copy, stage, failed, result, calls,
                                  partitions, verified, output, reports_left, stages_made,
                                  and_then_calls>>
              ELSE \E outs \in PlanOutcomes(plan, reports_left) :
                   \E run \in {provide_loop(plan, 1, environ_copy, calls, outs, stage_no, output)} :
                   \E f \in {stage_failed(stage.raps, run.environ)} :
                   \E next \in {provide_stage_next(f, stage.raps)} :
                   \E after \in {and_then_stage_execute(next, stage.and_then, f, run.environ,
                                                        environ)} :
                        /\ environ_copy' = run.environ
                        /\ process_environ' =
                                putenv_through(environ_is_none,
                                    putenv_through(environ_is_none, process_environ,
                                                   environ_copy, run.environ),
                                    environ, after.environ)
                        /\ exception' = after.error
                        /\ calls' = run.calls
                        /\ output' = run.output \o print_missing(stage.raps, 1, run.environ, stage_no)
                        /\ reports_left' = reports_left -
                                Cardinality({c \in DOMAIN run.calls :
                                    c > Len(calls) /\ (run.calls[c].errors \/ run.calls[c].logs)})
                        /\ failed' = f
                        /\ verified' = Append(verified,
                                [batch |-> stage.raps,
                                 unsatisfied |-> {stage.raps[i][1].env_var : i \in
                                    {n \in DOMAIN stage.raps :
                                        why_not_provided(stage.raps[n][1], run.environ) # None}},
                                 failed |-> f,
                                 next |-> next])
                        /\ environ' = after.environ
                        /\ partitions' = partitions \o after.parts
                        /\ and_then_calls' = and_then_calls \o
                                [k \in DOMAIN after.called |->
                                    [call |-> after.called[k], stage |-> stage_no]]
                        /\ stages_made' =
                                IF after.error = "none" /\ after.next # NoStage
                                THEN Append(stages_made, [batch |-> after.next.raps,
                                                          and_then |-> after.next.and_then])
                                ELSE stages_made
                        /\ IF after.error # "none"
                           THEN pc' = "raised" /\ result' = result /\ stage' = stage
                           ELSE IF f
                           THEN pc' = "returned" /\ result' = "False" /\ stage' = stage
                           ELSE IF after.next = NoStage
                           THEN pc' = "returned" /\ result' = "True" /\ stage' = NoStage
                           ELSE pc' = "loop" /\ result' = result /\ stage' = after.next
    /\ UNCHANGED <<ui_mode, environ_is_none, project, requirements_and_providers, stage_no,
                   environ_before, configured>>
    /\ UNCHANGED <<teardown_vars, command_vars, expander_vars>>

Next ==
    \/ RaiseInvalidUiMode
    \/ PrepareInStages
    \/ RaiseUnboundUi
    \/ ExecuteConfigureStage
    \/ ExecuteProvideStage

Spec == Init /\ [][Next]_vars

\* Providers that may leave logs and errors, on an environ with no key.
ReportInit == PrepareCalled(MaxReports) /\ environ = NoEnviron

ReportSpec == ReportInit /\ [][Next]_vars

\* ---------------------------------------------------------- teardown driver
\* No prepare call: the state of the preparation engine before prepare.
PrepareIdle ==
    /\ ui_mode = UI_MODE_NOT_INTERACTIVE
    /\ environ_is_none = FALSE
    /\ process_environ = NoEnviron
    /\ exception = "none"
    /\ environ = NoEnviron
    /\ project = [requirements |-> <<>>]
    /\ environ_copy = NoEnviron
    /\ requirements_and_providers = <<>>
    /\ stage = NoStage
    /\ failed = FALSE
    /\ pc = "start"
    /\ result = "none"
    /\ stage_no = 0
    /\ calls = <<>>
    /\ partitions = <<>>
    /\ provide_sorts = <<>>
    /\ verified = <<>>
    /\ environ_before = NoEnviron
    /\ output = <<>>
    /\ reports_left = 0
    /\ configured = <<>>
    /\ stages_made = <<>>
    /\ and_then_calls = <<>>

\* A run-state file left by earlier preparations.
TeardownInit ==
    /\ persisted \in [ServiceNames -> RunStates]
    /\ file_order \in Perms(ServiceNames)
    /\ local_state = [n \in ServiceNames |-> Untracked]
    /\ todo = <<>>
    /\ tpc = "idle"
    /\ unprepare_result = "none"
    /\ unprepares = 0
    /\ shutdown_events = <<>>
    /\ tracked_at_load = [n \in ServiceNames |-> Untracked]
    /\ PrepareIdle
    /\ CommandIdle
    /\ ExpanderIdle

\* unprepare is called (lines 404-407): the file is loaded and the loop is
\* set over a copy of the mapping's names; with nothing tracked it returns.
Unprepare ==
    /\ tpc \in {"idle", "returned", "raised"}
    /\ unprepares < MaxUnprepares
    /\ LET names == SelectSeq(file_order, LAMBDA n : persisted[n].tracked)
       IN  /\ todo' = names
           /\ tpc' = IF names = <<>> THEN "returned" ELSE "loop"
           /\ unprepare_result' = IF names = <<>> THEN unprepare_returns(<<>>) ELSE "none"
    /\ local_state' = persisted
    /\ tracked_at_load' = persisted
    /\ unprepares' = unprepares + 1
    /\ UNCHANGED <<persisted, file_order, shutdown_events>>
    /\ UNCHANGED <<prepare_vars, command_vars, expander_vars>>

\* One turn of the loop of unprepare (lines 407-417): the shutdown commands
\* of the resource are run, its run state is set to dict() and the file is
\* saved; after the last resource unprepare returns.
ShutdownService ==
    /\ tpc = "loop"
    /\ LET service_name == Head(todo)
           state == local_state[service_name]
           run == IF state.has_shutdown_commands
                  THEN run_shutdown_commands(service_name, state.shutdown_commands, 1,
                                             <<>>, unprepares)
                  ELSE [events |-> <<>>, raised |-> FALSE]
           cleared == [local_state EXCEPT
                            ![service_name] = cleared_run_state(state, run.events)]
           saved == ShutdownEvent("save", service_name, "", [raised |-> FALSE, code |-> 0],
                                  cleared[service_name], unprepares)
           all_events == shutdown_events \o run.events \o <<saved>>
       IN  IF run.raised
           THEN /\ tpc' = "raised"
                /\ shutdown_events' = shutdown_events \o run.events
                /\ UNCHANGED <<local_state, persisted, todo, unprepare_result>>
           ELSE /\ local_state' = cleared
                /\ persisted' = cleared
                /\ shutdown_events' = all_events
                /\ todo' = Tail(todo)
                /\ tpc' = IF Tail(todo) = <<>> THEN "returned" ELSE "loop"
                /\ unprepare_result' =
                        IF Tail(todo) = <<>>
                        THEN unprepare_returns(
                                SelectSeq(all_events, LAMBDA e : e.unprepare = unprepares))
                        ELSE "none"
    /\ UNCHANGED <<file_order, unprepares, tracked_at_load>>
    /\ UNCHANGED <<prepare_vars, command_vars, expander_vars>>

TeardownNext ==
    \/ Unprepare
    \/ ShutdownService

TeardownSpec == TeardownInit /\ [][TeardownNext]_vars

\* ------------------------------------------------------------------ claims
\* The provide calls and read_config calls of the history.
IsCall(c, op, stage_k, v) ==
    calls[c].op = op /\ calls[c].stage = stage_k /\ calls[c].env_var = v

\* C1: the caller's environ mapping (os.environ when None was passed) equals
\* its value before prepare in every state in which prepare has not returned
\* True: while the chain runs, when a stage has failed and when the
\* preparation was aborted.
AtomicEnvironmentCommit ==
    result # "True" => environ = environ_before

\* C1 witness: prepare returned False after a provider had set a variable in
\* the copy; the caller's environ does not have it.
AtomicEnvironmentCommitWitness ==
    /\ result = "False"
    /\ \E v \in Vars : environ_copy[v] = "new" /\ ~Has(environ, v)

\* Beside the mapping: prepare called with None returned False after a
\* provider had set a variable in the copy of os.environ; the mapping
\* os.environ does not have the variable, the process has it through putenv.
LeakedThroughPutenv ==
    /\ result = "False"
    /\ environ_is_none
    /\ \E v \in Vars :
            environ_copy[v] = "new" /\ ~Has(environ, v) /\ process_environ[v] = "new"

\* C2: when prepare returns True every key of the copy has the copy's value
\* in the caller's environ, and a key the copy did not change has kept the
\* value it had before.
CommitOnSuccess ==
    result = "True" =>
        \A k \in Keys :
            /\ Has(environ_copy, k) => environ[k] = environ_copy[k]
            /\ environ_copy[k] = environ_before[k] => environ[k] = environ_before[k]

\* C2 witness: prepare returned True, a provider's variable and PROJECT_DIR
\* (which the caller had set to another value) were committed.
CommitOnSuccessWitness ==
    /\ result = "True"
    /\ environ_before[PROJECT_DIR] = "old"
    /\ environ[PROJECT_DIR] = "dir"
    /\ \E v \in Vars : environ[v] = "new"

\* C3: prepare returns False exactly when the verification of some executed
\* work stage found a requirement unsatisfied; it returns True exactly when
\* it has returned and no verification found one, and then every pair of the
\* working list was in the batch of an executed work stage; the failed flag
\* the driver reads through the wrappers is the one the verification set.
OverallResult ==
    /\ (result = "False") <=> (\E k \in DOMAIN verified : verified[k].unsatisfied # {})
    /\ (result = "True") <=>
            (pc = "returned" /\ \A k \in DOMAIN verified : verified[k].unsatisfied = {})
    /\ result = "True" =>
            \A i \in DOMAIN requirements_and_providers :
                \E k \in DOMAIN verified :
                    requirements_and_providers[i] \in Range(verified[k].batch)
    /\ failed <=> (verified # <<>> /\ verified[Len(verified)].unsatisfied # {})

\* C3 witness: a work stage under two continuation wrappers failed, and
\* prepare returned False on that execute call.
OverallResultWitness ==
    /\ result = "False"
    /\ failed
    /\ Len(stage.and_then) = 2

\* C4: a requirement satisfied when its work stage starts gets no
\* read_config and no provide call on any of its providers in that stage.
SatisfiedSkip ==
    \A k \in DOMAIN provide_sorts :
        \A i \in DOMAIN provide_sorts[k].input :
            LET v == provide_sorts[k].input[i][1].env_var
            IN  Has(provide_sorts[k].environ, v) =>
                    ~\E c \in DOMAIN calls :
                        IsCall(c, "read_config", k, v) \/ IsCall(c, "provide", k, v)

\* C4 witness: a work stage ran whose batch held a satisfied requirement
\* and an unsatisfied one, the latter's provider being called.
SatisfiedSkipWitness ==
    \E k \in DOMAIN verified :
        /\ \E i \in DOMAIN verified[k].batch :
                Has(provide_sorts[k].environ, verified[k].batch[i][1].env_var)
        /\ \E c \in DOMAIN calls : calls[c].op = "provide" /\ calls[c].stage = k

\* C5 as claimed: a requirement unsatisfied when its work stage starts gets
\* a provide call on every one of its providers in that stage.
AllProvidersAttempted ==
    \A k \in DOMAIN verified :
        \A i \in DOMAIN verified[k].batch :
            LET rp == verified[k].batch[i]
                v == rp[1].env_var
            IN  (Len(rp[2]) > 1 /\ ~Has(provide_sorts[k].environ, v)) =>
                    \A j \in DOMAIN rp[2] :
                        \E c \in DOMAIN calls : IsCall(c, "provide", k, v) /\ calls[c].provider = j

\* C5 amended: the providers of such a requirement are called in their
\* order until one sets the variable: provider j gets its provide call
\* exactly when no provider before it in the pair has set the variable.
ProvidersAttemptedUntilSatisfied ==
    \A k \in DOMAIN verified :
        \A i \in DOMAIN verified[k].batch :
            LET rp == verified[k].batch[i]
                v == rp[1].env_var
                called(j) == \E c \in DOMAIN calls :
                                IsCall(c, "provide", k, v) /\ calls[c].provider = j
                set_by(j) == \E c \in DOMAIN calls :
                                /\ IsCall(c, "provide", k, v)
                                /\ calls[c].provider = j
                                /\ calls[c].sets
            IN  ~Has(provide_sorts[k].environ, v) =>
                    \A j \in DOMAIN rp[2] :
                        called(j) <=> ~\E h \in 1..(j - 1) : set_by(h)

\* C5 witness: the first of two providers set the variable and the second
\* one was not called.
ProvidersAttemptedUntilSatisfiedWitness ==
    \E c \in DOMAIN calls :
        /\ calls[c].op = "provide" /\ calls[c].provider = 1 /\ calls[c].sets
        /\ \E i \in DOMAIN requirements_and_providers :
            /\ requirements_and_providers[i][1].env_var = calls[c].env_var
            /\ Len(requirements_and_providers[i][2]) = 2
        /\ ~\E d \in DOMAIN calls :
            /\ calls[d].op = "provide" /\ calls[d].provider = 2
            /\ calls[d].env_var = calls[c].env_var
        /\ pc = "returned"

\* Every call of _sort_requirements_and_providers made so far, with what it
\* returned: the configure sorts of the partitions and the provide sorts.
SortCalls ==
    {[getter |-> "configure", input |-> partitions[k].input,
      environ |-> partitions[k].environ, ok |-> partitions[k].ok,
      order |-> partitions[k].head \o partitions[k].tail] : k \in DOMAIN partitions}
    \cup
    {[getter |-> "provide", input |-> provide_sorts[k].input,
      environ |-> provide_sorts[k].environ, ok |-> provide_sorts[k].ok,
      order |-> provide_sorts[k].order] : k \in DOMAIN provide_sorts}

\* The dependency keys of a pair as the claims define them: the variables
\* some provider of the pair reports as missing, less those set in environ.
DependsOn(rp, getter, env) ==
    {v \in Keys :
        /\ \E j \in DOMAIN rp[2] : v \in missing_vars_getter(getter, rp[2][j], rp[1], env)
        /\ ~Has(env, v)}

KeysOf(list) == {list[i][1].env_var : i \in DOMAIN list}

\* The pair of the list whose key is v.
PairOf(list, v) == list[CHOOSE i \in DOMAIN list : list[i][1].env_var = v]

\* Some pairs of the list depend on each other's variables in a cycle:
\* there is a non-empty set of keys each of which depends on one of the set.
HasCycle(list, getter, env) ==
    \E S \in SUBSET KeysOf(list) :
        /\ S # {}
        /\ \A v \in S : DependsOn(PairOf(list, v), getter, env) \cap S # {}

\* Every dependency key is the key of a pair of the list.
Closed(list, getter, env) ==
    \A i \in DOMAIN list : DependsOn(list[i], getter, env) \subseteq KeysOf(list)

IsPermutation(order, input) ==
    /\ Len(order) = Len(input)
    /\ Range(order) = Range(input)
    /\ Cardinality(Range(order)) = Len(order)

DependenciesFirst(order, getter, env) ==
    \A a, b \in DOMAIN order :
        order[b][1].env_var \in DependsOn(order[a], getter, env) => b < a

\* C6: a sort that returns a list returns a permutation of its input in
\* which every pair comes after the pairs whose variables it depends on, and
\* a sort of a list whose dependency graph is acyclic, every dependency key
\* being a pair's key, does return one.
TopologicalCorrectness ==
    \A r \in SortCalls :
        /\ r.ok => /\ IsPermutation(r.order, r.input)
                   /\ DependenciesFirst(r.order, r.getter, r.environ)
        /\ (/\ ~HasCycle(r.input, r.getter, r.environ)
            /\ Closed(r.input, r.getter, r.environ)) => r.ok

\* C6 witness: a sort of three pairs returned them in another order than
\* the input's, a dependent having come first in the input.
TopologicalCorrectnessWitness ==
    \E r \in SortCalls :
        /\ r.ok
        /\ Len(r.input) = 3
        /\ r.order # r.input

\* The sets of two or more keys of the list each of which depends on another
\* key of the set, a dependency being a variable some provider of the pair
\* reports as missing, to configure or to provide, and env does not have.
CyclicSets(list, env) ==
    {S \in SUBSET KeysOf(list) :
        /\ Cardinality(S) >= 2
        /\ \A v \in S :
                (DependsOn(PairOf(list, v), "configure", env)
                    \cup DependsOn(PairOf(list, v), "provide", env)) \cap (S \ {v}) # {}}

\* C7 as claimed: a sort that meets a cycle returns no order and aborts the
\* preparation; and when pairs of the working list depend on each other's
\* variables in a cycle, none of them set in the caller's environ, prepare
\* does not return and no pair of the cycle has been given to ui.configure
\* or has got a read_config or a provide call.
CycleDetection ==
    /\ \A r \in SortCalls :
            HasCycle(r.input, r.getter, r.environ) =>
                (~r.ok /\ r.order = <<>> /\ pc = "raised" /\ result = "none")
    /\ \A S \in CyclicSets(requirements_and_providers, environ_before) :
            /\ pc # "returned"
            /\ \A k \in DOMAIN configured : KeysOf(configured[k]) \cap S = {}
            /\ \A c \in DOMAIN calls :
                    calls[c].op \in {"read_config", "provide"} => calls[c].env_var \notin S

\* C7 amended: cycles are detected sort by sort.  A sort of a list whose
\* pairs depend on each other's variables in a cycle of that sort's own
\* graph returns no order: it raises, prepare is aborted without a result,
\* and no provider of a pair of that list has got a read_config or a
\* provide call.  A cycle met by the configure sort of a partition is met
\* before the list is made into stages; a cycle met by the provide sort of
\* a work stage is met after ui.configure was called with that batch.  And
\* a sort raises for a cycle only when its own graph has one.
CycleDetectionPerSort ==
    /\ \A r \in SortCalls :
            /\ HasCycle(r.input, r.getter, r.environ) =>
                    /\ ~r.ok
                    /\ r.order = <<>>
                    /\ pc = "raised"
                    /\ result = "none"
                    /\ ~\E c \in DOMAIN calls :
                        /\ calls[c].op \in {"read_config", "provide"}
                        /\ calls[c].env_var \in KeysOf(r.input)
    /\ \A k \in DOMAIN partitions :
            /\ HasCycle(partitions[k].input, "configure", partitions[k].environ) =>
                    /\ k = Len(partitions)
                    /\ Len(stages_made) = k - 1
                    /\ Len(configured) = k - 1
            /\ (~partitions[k].ok /\ partitions[k].error = "cycle") =>
                    HasCycle(partitions[k].input, "configure", partitions[k].environ)
    /\ \A k \in DOMAIN provide_sorts :
            /\ HasCycle(provide_sorts[k].input, "provide", provide_sorts[k].environ) =>
                    /\ k = Len(provide_sorts)
                    /\ k = Len(configured)
                    /\ configured[k] = provide_sorts[k].input
                    /\ \E c \in DOMAIN calls :
                            calls[c].op = "configure" /\ calls[c].stage = k
            /\ provide_sorts[k].error = "cycle" =>
                    HasCycle(provide_sorts[k].input, "provide", provide_sorts[k].environ)

\* C7 witness: the provide sort of a later work stage met a cycle, after an
\* earlier stage had run its providers and after ui.configure had been
\* called with the batch that holds the cycle.
CycleDetectionPerSortWitness ==
    \E k \in DOMAIN provide_sorts :
        /\ HasCycle(provide_sorts[k].input, "provide", provide_sorts[k].environ)
        /\ k > 1
        /\ pc = "raised"
        /\ configured[k] = provide_sorts[k].input
        /\ \E c \in DOMAIN calls : calls[c].op = "provide" /\ calls[c].stage < k

\* Two pairs that need each other, one to configure and the other to
\* provide, went through every sort: prepare returned and both had provide
\* calls.
CycleAcrossGettersUndetected ==
    /\ pc = "returned"
    /\ \E S \in CyclicSets(requirements_and_providers, environ_before) :
            /\ \A r \in SortCalls : r.ok
            /\ \A v \in S : \E c \in DOMAIN calls :
                    calls[c].op = "provide" /\ calls[c].env_var = v

\* C8 as claimed: head ++ tail is the input list in its original order, and
\* no provider of a pair of head reports a variable missing to configure.
PartitionKeepsInputOrder ==
    \A k \in DOMAIN partitions :
        partitions[k].ok =>
            /\ partitions[k].head \o partitions[k].tail = partitions[k].input
            /\ \A i \in DOMAIN partitions[k].head :
                \A j \in DOMAIN partitions[k].head[i][2] :
                    missing_env_vars_to_configure(partitions[k].head[i][2][j],
                        partitions[k].head[i][1], partitions[k].environ) = {}

\* C8 amended: head ++ tail is the configure-sorted order of the input list,
\* a permutation of it with no pair dropped or duplicated and dependencies
\* first, and no provider of a pair of head reports a variable missing to
\* configure at partition time.
PartitionInvariant ==
    \A k \in DOMAIN partitions :
        partitions[k].ok =>
            /\ IsPermutation(partitions[k].head \o partitions[k].tail, partitions[k].input)
            /\ DependenciesFirst(partitions[k].head \o partitions[k].tail, "configure",
                                 partitions[k].environ)
            /\ \A i \in DOMAIN partitions[k].head :
                \A j \in DOMAIN partitions[k].head[i][2] :
                    missing_env_vars_to_configure(partitions[k].head[i][2][j],
                        partitions[k].head[i][1], partitions[k].environ) = {}

\* C8 witness: a partition with a head and a tail whose concatenation is
\* not the input order.
PartitionInvariantWitness ==
    \E k \in DOMAIN partitions :
        /\ partitions[k].ok
        /\ partitions[k].head # <<>>
        /\ partitions[k].tail # <<>>
        /\ partitions[k].head \o partitions[k].tail # partitions[k].input

\* A provider of the pair rp reports the variable v as missing, to configure
\* or to provide, in the environment env.
ReportsMissing(rp, v, env) ==
    \E j \in DOMAIN rp[2] :
        v \in missing_env_vars_to_configure(rp[2][j], rp[1], env)
              \cup missing_env_vars_to_provide(rp[2][j], rp[1], env)

\* C9: for two pairs A and B of the working list, a provider of A reporting
\* B's variable as missing when the chain is built, every provide call for B
\* comes before the first provide call for A.
DependenciesBeforeDependents ==
    \A a, b \in DOMAIN requirements_and_providers :
        LET A == requirements_and_providers[a]
            B == requirements_and_providers[b]
        IN  (a # b /\ ReportsMissing(A, B[1].env_var, partitions[1].environ)) =>
                \A c, d \in DOMAIN calls :
                    (/\ calls[c].op = "provide" /\ calls[c].env_var = A[1].env_var
                     /\ calls[d].op = "provide" /\ calls[d].env_var = B[1].env_var)
                    => d < c

ProvideCallFor(c, v) == calls[c].op = "provide" /\ calls[c].env_var = v

\* The working list holds just the pairs of x and y, the providers of x
\* needing nothing but y and those of y nothing.
SimpleExpansion(x, y) ==
    /\ KeysOf(requirements_and_providers) = {x, y}
    /\ \A i \in DOMAIN requirements_and_providers :
        \A j \in DOMAIN requirements_and_providers[i][2] :
            LET p == requirements_and_providers[i][2][j]
            IN  IF requirements_and_providers[i][1].env_var = x
                THEN p.cfg \cup p.prv \subseteq {y}
                ELSE p.cfg \cup p.prv = {}

\* C10: when a provider of a declared requirement x reports an undeclared
\* variable y as missing to provide, the working list has a pair for y, every
\* provide call for y comes before the provide calls for x, and once prepare
\* has returned with every provide call having set its variable it has
\* returned True with x and y set in the caller's environ; when nothing else
\* is needed and the mode has given the driver a UI the preparation is not
\* aborted.
TransitiveExpansion ==
    \A i \in DOMAIN requirements_and_providers : \A y \in Vars :
        LET A == requirements_and_providers[i]
            x == A[1].env_var
        IN  (/\ x \in Range(project.requirements)
             /\ y \notin Range(project.requirements)
             /\ \E j \in DOMAIN A[2] :
                    y \in missing_env_vars_to_provide(A[2][j], A[1], environ_before))
            =>
            /\ y \in KeysOf(requirements_and_providers)
            /\ \A c, d \in DOMAIN calls :
                    (ProvideCallFor(c, x) /\ ProvideCallFor(d, y)) => d < c
            /\ (/\ pc = "returned"
                /\ \A c \in DOMAIN calls : calls[c].op = "provide" => calls[c].sets)
               => (result = "True" /\ Has(environ, x) /\ Has(environ, y))
            /\ (SimpleExpansion(x, y) /\ ui_of(ui_mode) # Unbound) => pc # "raised"

\* C10 witness: X declared, Y created for X's provider, Y provided and then
\* X, prepare returned True with both set.
TransitiveExpansionWitness ==
    /\ project.requirements = <<"X">>
    /\ result = "True"
    /\ environ["X"] = "new" /\ environ["Y"] = "new"
    /\ \E i \in DOMAIN requirements_and_providers :
        /\ requirements_and_providers[i][1].env_var = "X"
        /\ \E j \in DOMAIN requirements_and_providers[i][2] :
            "Y" \in requirements_and_providers[i][2][j].prv
    /\ \E c, d \in DOMAIN calls : ProvideCallFor(c, "X") /\ ProvideCallFor(d, "Y") /\ d < c

\* --------------------------------------------------- variable command runs
ArgLists == UNION {[1..n -> Strings] : n \in 0..MaxArgs}

\* A command line and a project file.
CommandInit ==
    /\ args \in [action : {"set", "unset"}, vars_to_set : ArgLists,
                  vars_to_unset : {<<>>, <<<<"a">>>>}]
    /\ (args.action = "set" => args.vars_to_unset = <<>>)
    /\ (args.action = "unset" => args.vars_to_set = <<>>)
    /\ project_problems \in BOOLEAN
    /\ project_variables \in {<<>>, << <<<<"a">>, <<"b">>>> >>}
    /\ cpc = "start"
    /\ exit_code = NoExitCode
    /\ project_loaded = FALSE
    /\ add_variables_calls = <<>>
    /\ project_variables_before = project_variables
    /\ PrepareIdle
    /\ TeardownIdle
    /\ ExpanderIdle

\* main (lines 43-46) with the action 'set': set_variables, whose return
\* value is the exit code.
MainSet ==
    /\ cpc = "start"
    /\ args.action = "set"
    /\ LET r == set_variables(project_problems, project_variables, args.vars_to_set)
       IN  /\ exit_code' = r.exit_code
           /\ project_loaded' = r.loaded
           /\ add_variables_calls' = add_variables_calls \o r.added
           /\ project_variables' = r.variables
    /\ cpc' = "returned"
    /\ UNCHANGED <<args, project_problems, project_variables_before>>
    /\ UNCHANGED <<prepare_vars, teardown_vars, expander_vars>>

\* main (lines 47-48) with any other action: unset_variables (lines 34-40)
\* raises NotImplementedError, which main lets through.
MainUnset ==
    /\ cpc = "start"
    /\ args.action # "set"
    /\ cpc' = "raised"
    /\ UNCHANGED <<args, project_problems, project_variables, exit_code, project_loaded,
                   add_variables_calls, project_variables_before>>
    /\ UNCHANGED <<prepare_vars, teardown_vars, expander_vars>>

CommandNext ==
    \/ MainSet
    \/ MainUnset

CommandSpec == CommandInit /\ [][CommandNext]_vars

\* ------------------------------------------------------- expander, stepwise
\* prepare_in_stages up to its call of the expander (lines 298-320): the
\* declared requirements with their providers, and the caller's environ.
ExpanderInit ==
    /\ xenviron \in {e \in [Keys -> {Absent, "old"}] :
                        Cardinality({k \in Keys : Has(e, k)}) <= MaxPreset}
    /\ xinput \in UNION {Appended(<<>>, d, 1) : d \in Declared}
    /\ xlist = xinput
    /\ xregistry = [v \in Vars |-> Unasked]
    /\ xpc = "call"
    /\ xdepth = 0
    /\ xerror = "none"
    /\ xasked = <<>>
    /\ PrepareIdle
    /\ TeardownIdle
    /\ CommandIdle

\* One call of _add_missing_env_var_requirements (lines 249-274): a pass
\* over the needed variables, then the return of the whole recursion, the
\* exception of line 269, or the recursive call.  The call at the
\* interpreter's depth limit is the last: RecursionError ends it, inside
\* the pass or, the pass done, at the call of line 274.
ExpanderCall ==
    /\ xpc = "call"
    /\ \E r \in expander_pass(xlist, xenviron, xregistry, xinput, xdepth + 1 >= MaxDepth) :
        /\ xlist' = r.list
        /\ xregistry' = r.registry
        /\ xasked' = xasked \o r.asked
        /\ IF r.error # "none"
           THEN xpc' = "raised" /\ xerror' = r.error /\ xdepth' = xdepth + 1
           ELSE IF ~r.again
           THEN xpc' = "returned" /\ xerror' = "none" /\ xdepth' = 0
           ELSE IF xdepth + 1 >= MaxDepth
           THEN xpc' = "raised" /\ xerror' = "RecursionError" /\ xdepth' = xdepth + 1
           ELSE xpc' = "call" /\ xerror' = "none" /\ xdepth' = xdepth + 1
    /\ UNCHANGED <<xenviron, xinput>>
    /\ UNCHANGED <<prepare_vars, teardown_vars, command_vars>>

ExpanderNext == ExpanderCall

ExpanderSpec == ExpanderInit /\ [][ExpanderNext]_vars

\* ----------------------------------------------------------- teardown claims
\* The commands unprepare call n has run for the resource, in order.
CommandsRun(n, service) ==
    LET ran == SelectSeq(shutdown_events,
                    LAMBDA e : e.op = "call" /\ e.unprepare = n /\ e.service = service)
    IN  [k \in DOMAIN ran |-> ran[k].command]

\* Some command of unprepare call n exited nonzero.
SomeCommandFailed(n) ==
    \E k \in DOMAIN shutdown_events :
        /\ shutdown_events[k].op = "call"
        /\ shutdown_events[k].unprepare = n
        /\ ~shutdown_events[k].raised
        /\ shutdown_events[k].code # 0

\* Unprepare call n went through its whole loop: every tracked resource has
\* its save.  (A resource once tracked stays a key of the mapping.)
Completed(n) ==
    /\ n <= unprepares
    /\ \A service \in ServiceNames :
            tracked_at_load[service].tracked =>
                \E k \in DOMAIN shutdown_events :
                    /\ shutdown_events[k].op = "save"
                    /\ shutdown_events[k].unprepare = n
                    /\ shutdown_events[k].service = service

EveryCommandRun ==
    \A service \in ServiceNames :
        tracked_at_load[service].has_shutdown_commands =>
            CommandsRun(unprepares, service) = tracked_at_load[service].shutdown_commands

EveryEntryCleared ==
    \A service \in ServiceNames :
        tracked_at_load[service].tracked => persisted[service] = EmptyRunState

\* The value returned tells a failure: it is not the nothing that a clean
\* teardown returns.
FailureReported ==
    SomeCommandFailed(unprepares) => unprepare_result \notin {"none", None}

\* C11: when unprepare has returned, the commands of every tracked resource
\* have been run, whatever the exit codes of the others, the run-state entry
\* of every tracked resource is empty, and the call has reported failure if
\* some command exited nonzero.
TeardownIndependence ==
    tpc = "returned" => (EveryCommandRun /\ EveryEntryCleared /\ FailureReported)

\* C12: when unprepare has returned the persisted entry of every resource
\* that was tracked is dict(), whatever the exit codes were; an unprepare
\* call that follows a completed one runs no command; and between the
\* commands of two resources in one call lies the save that wrote the first
\* resource's entry as dict().
TeardownAtMostOnce ==
    /\ tpc = "returned" => EveryEntryCleared
    /\ \A k \in DOMAIN shutdown_events :
            (shutdown_events[k].op = "call" /\ shutdown_events[k].unprepare > 1)
                => ~Completed(shutdown_events[k].unprepare - 1)
    /\ \A i, j \in DOMAIN shutdown_events :
            (/\ i < j
             /\ shutdown_events[i].op = "call" /\ shutdown_events[j].op = "call"
             /\ shutdown_events[i].unprepare = shutdown_events[j].unprepare
             /\ shutdown_events[i].service # shutdown_events[j].service)
            => \E k \in (i + 1)..(j - 1) :
                    /\ shutdown_events[k].op = "save"
                    /\ shutdown_events[k].service = shutdown_events[i].service
                    /\ shutdown_events[k].saved = EmptyRunState

\* C12 witness: a first unprepare ran the commands of two resources, one of
\* them exiting nonzero, and returned; a second unprepare returned having
\* run nothing.
TeardownAtMostOnceWitness ==
    /\ unprepares = 2
    /\ tpc = "returned"
    /\ SomeCommandFailed(1)
    /\ \A service \in ServiceNames : CommandsRun(1, service) # <<>>
    /\ \A service \in ServiceNames : CommandsRun(2, service) = <<>>

\* ------------------------------------------------------------ command claims
\* The argument list is well formed: every element holds a '='.
WellFormed(list) == \A i \in DOMAIN list : contains_equals(list[i])

\* C13: set_variables returns 0 or 1; 0 exactly when every argument is a
\* name=value pair and the project file has no problems, add_variables
\* having then been called once; when the project file has problems it
\* returns 1, add_variables is never called and the project is unchanged.
ExitStatusAndShortCircuit ==
    (cpc = "returned" /\ args.action = "set") =>
        /\ exit_code \in {0, 1}
        /\ (exit_code = 0) <=> (WellFormed(args.vars_to_set) /\ ~project_problems)
        /\ exit_code = 0 => Len(add_variables_calls) = 1
        /\ project_problems =>
                /\ exit_code = 1
                /\ add_variables_calls = <<>>
                /\ project_variables = project_variables_before
        /\ exit_code = 1 =>
                (add_variables_calls = <<>> /\ project_variables = project_variables_before)

\* C13 witness: a well-formed command line on a project file with problems:
\* the project was loaded, the command returned 1 and added nothing.
ExitStatusAndShortCircuitWitness ==
    /\ cpc = "returned"
    /\ project_problems
    /\ Len(args.vars_to_set) = 2
    /\ WellFormed(args.vars_to_set)
    /\ project_loaded
    /\ exit_code = 1
    /\ add_variables_calls = <<>>

\* C14: main never lets an exception through: whatever the action and the
\* arguments, it ends by returning an exit code 0 or 1.
NoExceptionCrossesBoundary ==
    /\ cpc # "raised"
    /\ cpc = "returned" => exit_code \in {0, 1}

\* ----------------------------------------------------------- expander claims
\* Every name asked of the registry got a requirement keyed by that name.
RegistryKeyedByName ==
    \A v \in Vars : xregistry[v] # Unasked => xregistry[v].env_var = v

UniqueKeys(list) ==
    \A i, j \in DOMAIN list : list[i][1].env_var = list[j][1].env_var => i = j

\* C15: the pairs present at the call stay in their positions, new pairs
\* being appended only; when the expander has returned, every variable some
\* provider of some pair reports as missing, to configure or to provide, is
\* the env_var of a pair of the list; and with a registry that keys every
\* requirement by the name asked, no two pairs share an env_var.
ExpanderFixedPoint ==
    /\ Len(xlist) >= Len(xinput)
    /\ SubSeq(xlist, 1, Len(xinput)) = xinput
    /\ xpc = "returned" => needed_env_vars(xlist, xenviron) \subseteq KeysOf(xlist)
    /\ RegistryKeyedByName => UniqueKeys(xlist)

\* C15 witness: the expander returned a list of three pairs for one declared
\* requirement, the second pair created for the first and the third for the
\* second.
ExpanderFixedPointWitness ==
    /\ xpc = "returned"
    /\ Len(xinput) = 1
    /\ Len(xlist) = 3
    /\ needed_env_vars(<<xlist[1]>>, xenviron) = {xlist[2][1].env_var}
    /\ needed_env_vars(<<xlist[2]>>, xenviron) = {xlist[3][1].env_var}

\* C16: the expansion ends by returning or by an explicit failure: it does
\* not ask the registry for a name it has asked for in an earlier pass, and
\* it is not ended by the interpreter's limit on recursion.
ExpanderTermination ==
    /\ xerror # "RecursionError"
    /\ \A i, j \in DOMAIN xasked : xasked[i] = xasked[j] => i = j

\* ---------------------------------------------------------- work stage claims
\* The entry w of the output is a line of the kind given written for the
\* provide call c.
WrittenFor(w, c, stream, what) ==
    /\ output[w].stream = stream
    /\ output[w].what = what
    /\ output[w].env_var = calls[c].env_var
    /\ output[w].provider = calls[c].provider
    /\ output[w].stage = calls[c].stage

\* Every log line of the call c that was written comes before every error
\* line of c.
LogsPrecedeErrors(c) ==
    \A w1, w2 \in DOMAIN output :
        (WrittenFor(w1, c, "stdout", "log") /\ WrittenFor(w2, c, "stderr", "error")) => w1 < w2

\* C17: the logs of every provide call are written to standard output, its
\* errors to standard error, and the logs before the errors; also for a call
\* that left logs and no errors.
LogsBeforeErrors ==
    \A c \in DOMAIN calls :
        calls[c].op = "provide" =>
            /\ calls[c].logs => \E w \in DOMAIN output : WrittenFor(w, c, "stdout", "log")
            /\ calls[c].errors => \E w \in DOMAIN output : WrittenFor(w, c, "stderr", "error")
            /\ LogsPrecedeErrors(c)

\* The plan of the k-th work stage.
PlanOf(k) == make_plan(provide_sorts[k].order, 1)

\* The provide call, if any, made in stage k for the entry i of its plan.
CallsFor(k, i) ==
    {c \in DOMAIN calls :
        /\ IsCall(c, "provide", k, PlanOf(k)[i].requirement.env_var)
        /\ calls[c].provider = PlanOf(k)[i].index}

\* The requirement of the entry i of the plan of stage k is not provided
\* when the loop reaches the entry: its variable was not set when the stage
\* began and no earlier entry's call has set it.
UnsatisfiedAtTurn(k, i) ==
    /\ ~Has(provide_sorts[k].environ, PlanOf(k)[i].requirement.env_var)
    /\ \A h \in 1..(i - 1) :
            PlanOf(k)[h].requirement.env_var = PlanOf(k)[i].requirement.env_var
                => \A c \in CallsFor(k, h) : ~calls[c].sets

\* The variable v is set after all the provide calls of stage k.
SatisfiedAfter(k, v) ==
    \/ Has(provide_sorts[k].environ, v)
    \/ \E c \in DOMAIN calls : IsCall(c, "provide", k, v) /\ calls[c].sets

\* C18: in a work stage that has run, after a provide call that reported
\* errors every later entry of the plan whose requirement is not provided at
\* its turn gets its provide call, and the stage's failed flag is set
\* exactly when some requirement of the batch is not provided after all the
\* calls, whatever errors were reported.
KeepGoingOnProviderFailure ==
    \A k \in DOMAIN verified :
        /\ \A p \in DOMAIN PlanOf(k) :
                (\E c \in CallsFor(k, p) : calls[c].errors) =>
                    \A i \in DOMAIN PlanOf(k) :
                        (i > p /\ UnsatisfiedAtTurn(k, i)) => CallsFor(k, i) # {}
        /\ verified[k].failed <=>
                \E i \in DOMAIN verified[k].batch :
                    ~SatisfiedAfter(k, verified[k].batch[i][1].env_var)

\* C18 witness: a provide call reported errors and set its variable, a
\* later entry of the same plan was called, and prepare returned True.
KeepGoingOnProviderFailureWitness ==
    /\ result = "True"
    /\ \E k \in DOMAIN verified : \E p, i \in DOMAIN PlanOf(k) :
            /\ p < i
            /\ \E c \in CallsFor(k, p) : calls[c].errors /\ calls[c].sets
            /\ CallsFor(k, i) # {}

\* ---------------------------------------------------------- stage chain claims
\* The driver holds a configure stage it has not executed yet.
ConfigurePending == pc = "loop" /\ stage.execute = "configure_stage"

\* The driver holds a work stage it has not executed yet.
WorkPending == pc = "loop" /\ stage.execute = "provide_stage"

\* The driver had no UI to give to the first configure stage and raised
\* without entering it.
ConfigureNotEntered ==
    pc = "raised" /\ exception = "UnboundLocalError" /\ stage.execute = "configure_stage"

ConfigureCalls(k) ==
    {c \in DOMAIN calls : calls[c].op = "configure" /\ calls[c].stage = k}

\* C19: every batch turned into stages has had exactly one ui.configure
\* call, with that batch, once the driver has executed its configure stage
\* (a driver without a UI raises before it enters the first one);
\* that call precedes every read_config and provide call for a pair of the
\* batch; the configure stage leaves failed unset and is followed by the
\* work stage of the same batch; and every work stage has returned None,
\* failed or not.
ConfigureCheckpoint ==
    /\ Len(configured) =
            Len(stages_made) - (IF ConfigurePending \/ ConfigureNotEntered THEN 1 ELSE 0)
    /\ ConfigureNotEntered => (Len(stages_made) = 1 /\ calls = <<>>)
    /\ \A k \in DOMAIN configured :
            /\ configured[k] = stages_made[k].batch
            /\ Cardinality(ConfigureCalls(k)) = 1
    /\ \A c \in DOMAIN calls :
            calls[c].op \in {"read_config", "provide"} =>
                /\ calls[c].stage \in DOMAIN configured
                /\ calls[c].env_var \in KeysOf(configured[calls[c].stage])
                /\ \A d \in ConfigureCalls(calls[c].stage) : d < c
    /\ WorkPending => (~failed /\ stage.raps = configured[Len(configured)])
    /\ Len(provide_sorts) = Len(configured) - (IF WorkPending THEN 1 ELSE 0)
    /\ \A k \in DOMAIN verified : verified[k].next = NoStage

\* C19 witness: two batches were configured and worked on, and the second
\* work stage failed.
ConfigureCheckpointWitness ==
    /\ Len(configured) = 2
    /\ Len(verified) = 2
    /\ verified[2].failed
    /\ \E c \in DOMAIN calls : calls[c].op = "provide" /\ calls[c].stage = 2

\* The continuations the stage the driver holds is still wrapped in that
\* would process a tail.
PendingTails ==
    {stage.and_then[j].remaining :
        j \in {n \in DOMAIN stage.and_then : stage.and_then[n].f = "process_remaining"}}

\* C20: no and_then function is called twice; each call was made on the
\* return of a work stage that returned None and had not failed; a work
\* stage that failed is the last one: no and_then was called on its return,
\* nothing was partitioned, configured or provided after it, no pair of a
\* pending tail got any call, and the caller's environ was not written; and
\* the stage the driver holds carries the and_then functions its configure
\* stage was made with.  The tails are partitioned, and the environ is
\* committed, by these calls only.
ContinuationSemantics ==
    /\ \A i, j \in DOMAIN and_then_calls :
            (/\ and_then_calls[i].call.f = and_then_calls[j].call.f
             /\ and_then_calls[i].call.remaining = and_then_calls[j].call.remaining) => i = j
    /\ \A i \in DOMAIN and_then_calls :
            /\ ~and_then_calls[i].call.failed
            /\ and_then_calls[i].stage \in DOMAIN verified
            /\ verified[and_then_calls[i].stage].next = NoStage
            /\ ~verified[and_then_calls[i].stage].failed
    /\ \A k \in DOMAIN verified :
            verified[k].failed =>
                /\ k = Len(verified) /\ k = Len(configured) /\ k = Len(stages_made)
                /\ \A i \in DOMAIN and_then_calls : and_then_calls[i].stage # k
                /\ Len(partitions) = k
                /\ \A c \in DOMAIN calls : calls[c].stage <= k
                /\ \A tail \in PendingTails : \A c \in DOMAIN calls :
                        calls[c].env_var \notin KeysOf(tail)
                /\ environ = environ_before
                /\ result = "False"
    /\ pc = "loop" =>
            /\ stage.and_then = stages_made[Len(stages_made)].and_then
            /\ stage.raps = stages_made[Len(stages_made)].batch
    /\ (pc # "start" /\ ui_mode \in _all_ui_modes) =>
            Len(partitions) =
                1 + Cardinality({i \in DOMAIN and_then_calls :
                                    and_then_calls[i].call.f = "process_remaining"})
    /\ (\E i \in DOMAIN and_then_calls : and_then_calls[i].call.f = "set_vars")
            <=> result = "True"

\* C20 witness: a head stage whose provider set a variable failed on
\* another requirement, with a tail waiting in its continuation; prepare
\* returned False.
ContinuationSemanticsWitness ==
    /\ result = "False"
    /\ Len(verified) = 1
    /\ \E tail \in PendingTails : tail # <<>>
    /\ \E v \in Vars : environ_copy[v] = "new"

\* --------------------------------------------------- satisfied dependencies
\* The keys the providers of pair i of a sort's input reported to the sort.
ReportedKeys(r, i) == get_dependency_keys(r.input[i], r.getter, r.environ)

\* The keys present in the environ the sort was given.
SatisfiedKeys(r) == {k \in Keys : Has(r.environ, k)}

\* The sort of the same list had no provider reported a satisfied key.
SortWithoutSatisfied(r) ==
    toposort_from_dependency_info(
        r.input,
        [i \in DOMAIN r.input |-> get_node_key(r.input[i])],
        [i \in DOMAIN r.input |-> ReportedKeys(r, i) \ SatisfiedKeys(r)],
        {})

PositionOf(order, v) == CHOOSE i \in DOMAIN order : order[i][1].env_var = v

\* Some provider reported to the sort a key that is neither in its environ
\* nor the key of a pair of its list.
ReportsUnknownKey(r) ==
    \E i \in DOMAIN r.input :
        \E v \in ReportedKeys(r, i) : v \notin SatisfiedKeys(r) /\ v \notin KeysOf(r.input)

\* C21: a reported dependency key that is present in the sort's environ
\* changes nothing: the sort ends as it would have had the key not been
\* reported, a pair all of whose reported keys are present comes out before
\* every pair that followed it in the input, whether or not a pair of the
\* list has those keys, and a list with no other reported key comes out in
\* input order; a reported key that is neither present nor the key of a pair
\* of the list makes the sort raise, and prepare ends without a result.
SatisfiedDependenciesElided ==
    \A r \in SortCalls :
        /\ r.ok = SortWithoutSatisfied(r).ok
        /\ r.order = SortWithoutSatisfied(r).order
        /\ r.ok => \A i, j \in DOMAIN r.input :
                (ReportedKeys(r, i) \subseteq SatisfiedKeys(r) /\ i < j) =>
                    PositionOf(r.order, r.input[i][1].env_var)
                        < PositionOf(r.order, r.input[j][1].env_var)
        /\ (\A i \in DOMAIN r.input : ReportedKeys(r, i) \subseteq SatisfiedKeys(r))
                => (r.ok /\ r.order = r.input)
        /\ ReportsUnknownKey(r) =>
                (~r.ok /\ r.order = <<>> /\ pc = "raised" /\ result = "none")

\* C21 witness: a sort of a list returned an order although a provider of
\* one of its pairs had reported a key present in the environ that no pair
\* of the list has, and a later sort met a key neither present nor a pair's.
SatisfiedDependenciesElidedWitness ==
    /\ \E r \in SortCalls :
        /\ r.ok
        /\ \E i \in DOMAIN r.input : \E v \in ReportedKeys(r, i) :
                v \in SatisfiedKeys(r) /\ v \notin KeysOf(r.input)
    /\ \E r \in SortCalls : ReportsUnknownKey(r)

\* ------------------------------------------------------ partition stop rule
\* Some provider of the pair reports a variable missing to configure.
MissingToConfigure(rp, env) ==
    \E j \in DOMAIN rp[2] : missing_env_vars_to_configure(rp[2][j], rp[1], env) # {}

\* The configure-sorted order of the list a partition was given.
ConfigureSorted(p) ==
    _sort_requirements_and_providers(p.environ, p.input, "configure").order

\* C22: head followed by tail is the configure-sorted order of the list; no
\* pair of head has a provider reporting a variable missing to configure;
\* head is the longest such prefix, the first pair of a non-empty tail
\* having such a provider; and the pairs after it are the rest of the sorted
\* order, whatever their providers report.
PartitionStopRule ==
    \A k \in DOMAIN partitions :
        LET p == partitions[k]
            sorted == ConfigureSorted(p)
        IN  p.ok =>
            /\ p.head = SubSeq(sorted, 1, Len(p.head))
            /\ p.tail = SubSeq(sorted, Len(p.head) + 1, Len(sorted))
            /\ Len(p.head) + Len(p.tail) = Len(sorted)
            /\ \A i \in DOMAIN p.head : ~MissingToConfigure(p.head[i], p.environ)
            /\ p.tail # <<>> => MissingToConfigure(p.tail[1], p.environ)
            /\ Len(p.head) < Len(sorted) =>
                    MissingToConfigure(sorted[Len(p.head) + 1], p.environ)

\* C22 witness: a partition with a head, and a tail of two pairs the second
\* of which has no provider reporting a variable missing to configure.
PartitionStopRuleWitness ==
    \E k \in DOMAIN partitions :
        /\ partitions[k].ok
        /\ partitions[k].head # <<>>
        /\ Len(partitions[k].tail) >= 2
        /\ ~MissingToConfigure(partitions[k].tail[2], partitions[k].environ)

\* --------------------------------------------------------- stage plan shape
\* The and_then functions around the stage made from partition k, outside
\* its own: set_vars for the first, and for a later one those of the stage
\* before it less the process_remaining that made it.
OuterAndThen(k) ==
    IF k = 1 THEN <<[f |-> "set_vars", remaining |-> <<>>]>>
    ELSE Tail(stages_made[k - 1].and_then)

\* Number of work stages of the run whose batch holds the pair rp.
WorkStagesHolding(rp) ==
    Cardinality({k \in DOMAIN verified :
                    \E n \in DOMAIN verified[k].batch : verified[k].batch[n] = rp})

\* The chain has been run to its end: prepare has returned and the stage it
\* ended on has no tail waiting.
ChainCompleted == pc = "returned" /\ PendingTails = {}

\* C23: every call of _process_requirements_and_providers that returns has
\* made exactly one configure-and-provide stage, also for an empty list; the
\* stage holds head and continues with the tail when both are non-empty,
\* and holds the one that is non-empty, or the empty list, without a
\* continuation of its own otherwise, after which nothing is partitioned
\* again; and once the chain has been run to its end every pair of the
\* working list has been in exactly one work stage, of which there is at
\* least one.
StagePlanShape ==
    /\ \A k \in DOMAIN partitions :
        LET p == partitions[k]
        IN  p.ok =>
            /\ k \in DOMAIN stages_made
            /\ (p.head # <<>> /\ p.tail # <<>>) =>
                    /\ stages_made[k].batch = p.head
                    /\ stages_made[k].and_then =
                            <<process_remaining(p.tail)>> \o OuterAndThen(k)
            /\ (p.head # <<>> /\ p.tail = <<>>) =>
                    /\ stages_made[k].batch = p.head
                    /\ stages_made[k].and_then = OuterAndThen(k)
            /\ p.head = <<>> =>
                    /\ stages_made[k].batch = p.tail
                    /\ stages_made[k].and_then = OuterAndThen(k)
            /\ (p.head = <<>> \/ p.tail = <<>>) =>
                    /\ k = Len(partitions)
                    /\ \A j \in DOMAIN stages_made[k].and_then :
                            stages_made[k].and_then[j].f # "process_remaining"
    /\ Len(stages_made) = Cardinality({k \in DOMAIN partitions : partitions[k].ok})
    /\ ChainCompleted =>
        /\ Len(verified) >= 1
        /\ Len(verified) = Len(stages_made)
        /\ \A i \in DOMAIN requirements_and_providers :
                WorkStagesHolding(requirements_and_providers[i]) = 1
        /\ \A k \in DOMAIN verified :
                Range(verified[k].batch) \subseteq Range(requirements_and_providers)

\* C23 witness: a chain run to its end in which a head was staged with a
\* continuation and the tail, of two pairs, was partitioned into an empty
\* head and staged whole.
StagePlanShapeWitness ==
    /\ ChainCompleted
    /\ Len(verified) = 2
    /\ partitions[1].head # <<>>
    /\ partitions[2].head = <<>>
    /\ Len(partitions[2].tail) = 2

\* C23 second witness: an empty working list was staged and run.
StagePlanShapeEmptyList ==
    /\ ChainCompleted
    /\ requirements_and_providers = <<>>
    /\ Len(verified) = 1

\* --------------------------------------------------------- chain termination
\* The most work stages a chain over the working list may run.
MostWorkStages ==
    IF Len(requirements_and_providers) = 0 THEN 1 ELSE Len(requirements_and_providers)

\* The driver loop has ended, by a return or by an exception.
DriverEnded == pc \in {"returned", "raised"}

\* The execute calls the driver loop has made.
ExecuteCalls == Len(configured) + Len(provide_sorts)

\* The driver has a step to take: prepare not yet started refuses the mode,
\* or builds a chain or raises; a loop turn without a UI raises, and one with
\* a UI holds a configure stage or a work stage, whose providers have some
\* outcome for every call of the plan.
HasStepToTake ==
    /\ (pc = "start" /\ ui_mode \in _all_ui_modes) =>
            \E initial \in Appended(<<>>, project.requirements, 1) :
                _add_missing_env_var_requirements(initial, environ) # {}
    /\ (pc = "loop" /\ ui_of(ui_mode) # Unbound) =>
            /\ stage.execute \in {"configure_stage", "provide_stage"}
            /\ stage.execute = "provide_stage" =>
                    LET s == _sort_requirements_and_providers(environ_copy, stage.raps, "provide")
                    IN  s.ok => PlanOutcomes(make_plan(s.order, 1), reports_left) # {}

\* C24: the driver loop of prepare cannot go on for ever.  While it has not
\* ended it has a stage to execute, whatever the providers did; every
\* re-partition works on the tail of the partition before it, which had a
\* non-empty head, and so on a strictly shorter list; the execute calls made
\* are at most two for each pair of the working list (two for an empty
\* list), the work stages at most one for each; and a driver that has
\* returned has executed at least one work stage, the last execute having
\* returned no successor.
ChainTermination ==
    /\ DriverEnded \/ HasStepToTake
    /\ \A k \in DOMAIN partitions :
            k > 1 => /\ partitions[k - 1].head # <<>>
                     /\ partitions[k].input = partitions[k - 1].tail
                     /\ Len(partitions[k].input) < Len(partitions[k - 1].input)
    /\ pc # "start" =>
            /\ Len(verified) <= MostWorkStages
            /\ Len(partitions) <= MostWorkStages
            /\ ExecuteCalls <= 2 * MostWorkStages
    /\ pc = "loop" =>
            /\ stage # NoStage
            /\ ExecuteCalls < 2 * MostWorkStages
    /\ pc = "returned" =>
            /\ Len(verified) >= 1
            /\ Len(configured) = Len(verified)
            /\ verified[Len(verified)].next = NoStage
            /\ result = "True" => stage = NoStage
            /\ result = "False" => verified[Len(verified)].failed

\* C24 witness: prepare returned after three work stages over a working list
\* of three pairs, each re-partition having removed a head of one pair.
ChainTerminationWitness ==
    /\ pc = "returned"
    /\ Len(requirements_and_providers) = 3
    /\ Len(verified) = 3
    /\ Len(partitions) = 3

\* ------------------------------------------------------ argument validation
\* pair is var cut at its first '=': a name without '=', then the value.
CutAtFirstEquals(var, pair) ==
    /\ Len(pair) = 2
    /\ pair[1] \o <<"=">> \o pair[2] = var
    /\ ~contains_equals(pair[1])

\* add_variables was called once, with the pairs of all the arguments, each
\* cut at its first '=', in the order of the arguments.
PassedInOneCall ==
    /\ Len(add_variables_calls) = 1
    /\ Len(add_variables_calls[1]) = Len(args.vars_to_set)
    /\ \A i \in DOMAIN args.vars_to_set :
            CutAtFirstEquals(args.vars_to_set[i], add_variables_calls[1][i])

\* An argument without '=' made set_variables return 1 before the project
\* was loaded, nothing having been added.
RejectedBeforeLoading ==
    /\ exit_code = 1
    /\ ~project_loaded
    /\ add_variables_calls = <<>>
    /\ project_variables = project_variables_before

\* C25 as claimed: with an argument that holds no '=' set_variables returns 1
\* without loading the project and without adding a variable; otherwise the
\* pairs of all the arguments, cut at their first '=', are passed to
\* add_variables in one call, in the order of the arguments.
AllOrNothingOnArguments ==
    (cpc = "returned" /\ args.action = "set") =>
        IF WellFormed(args.vars_to_set) THEN PassedInOneCall ELSE RejectedBeforeLoading

\* C25 amended: as claimed when the project file has no problems; when
\* every argument holds a '=' and the project file has problems, the
\* project is loaded and add_variables is not called.
AllOrNothingOnValidArguments ==
    (cpc = "returned" /\ args.action = "set") =>
        IF ~WellFormed(args.vars_to_set) THEN RejectedBeforeLoading
        ELSE IF project_problems
        THEN project_loaded /\ add_variables_calls = <<>>
        ELSE project_loaded /\ PassedInOneCall

\* C25 witness: a command line whose first argument is a pair with a second
\* '=' in its value and whose second argument holds no '=': the command
\* returned 1, the project not loaded, nothing added.
AllOrNothingOnValidArgumentsWitness ==
    /\ cpc = "returned"
    /\ args.action = "set"
    /\ Len(args.vars_to_set) = 2
    /\ args.vars_to_set[1] = <<"a", "=", "=">>
    /\ ~contains_equals(args.vars_to_set[2])
    /\ ~project_problems
    /\ RejectedBeforeLoading

\* A command line of two pairs, the first with a second '=' in its value,
\* was passed to add_variables.
ValueKeepsLaterEquals ==
    /\ cpc = "returned"
    /\ Len(args.vars_to_set) = 2
    /\ args.vars_to_set[1] = <<"a", "=", "=">>
    /\ PassedInOneCall
    /\ add_variables_calls[1][1] = << <<"a">>, <<"=">> >>
====
